---- MODULE Spec2Model ----
(***************************************************************************)
(* Verification model of isp-programmer: the NXP ISP protocol engine       *)
(* (ISPConnection) and the flash-writing pipeline (WriteImage,             *)
(* WriteBinaryToFlash, WriteSector, WriteFlashSector), translated from     *)
(* src/src/ispprogrammer/ISPConnection.py with its collaborators           *)
(* src/src/isp_programmer/IODevices.py and src/src/isp_programmer/tools.py.*)
(*                                                                         *)
(* Bytes are integers 0..255, byte strings are sequences of bytes, and     *)
(* Python integers are kept as records [neg, lo, hi, top] of the sign and  *)
(* the 16-bit limbs of the magnitude, of any length.                       *)
(***************************************************************************)
EXTENDS Integers, Sequences, FiniteSets, TLC

----------------------------------------------------------------------------
(* Byte-string helpers.                                                    *)

Rep(b, n) == [i \in 1..n |-> b]

Drop(s, n) == IF n >= Len(s) THEN << >> ELSE SubSeq(s, n + 1, Len(s))

Take(s, n) == IF n >= Len(s) THEN s ELSE SubSeq(s, 1, n)

\* Python slice s[a:b] for 0 <= a, 0 <= b.
Slice(s, a, b) == Take(Drop(s, a), IF b > a THEN (IF b > Len(s) THEN Len(s) ELSE b) - a ELSE 0)

RECURSIVE Flatten(_)
Flatten(ss) == IF ss = << >> THEN << >> ELSE Head(ss) \o Flatten(Tail(ss))

\* Index of the first occurrence of byte b in s, 0 when absent.
RECURSIVE IndexFrom(_, _, _)
IndexFrom(s, b, i) ==
  IF i > Len(s) THEN 0 ELSE IF s[i] = b THEN i ELSE IndexFrom(s, b, i + 1)

IndexOf(s, b) == IndexFrom(s, b, 1)

----------------------------------------------------------------------------
(* Python integers.                                                        *)

\* A Python int: the sign and the magnitude in 16-bit limbs, lo the lowest,
\* hi the next and top those above (lowest first, the last one not 0, empty
\* below 2^32).
Limbs(w) == << w.lo, w.hi >> \o w.top

RECURSIVE TrimLimbs(_)
TrimLimbs(limbs) ==
  IF limbs # << >> /\ limbs[Len(limbs)] = 0
    THEN TrimLimbs(SubSeq(limbs, 1, Len(limbs) - 1)) ELSE limbs

FromLimbs(limbs) ==
  [neg |-> FALSE, lo |-> limbs[1], hi |-> limbs[2],
   top |-> TrimLimbs(SubSeq(limbs, 3, Len(limbs)))]

\* hi * 65536 + lo for 0 <= lo < 65536 and 0 <= hi < 2^31.
Wide(hi, lo) == FromLimbs(<< lo, hi % 65536, hi \div 65536 >>)

\* The Python int n, for a number n the checker can hold.
PyInt(n) ==
  IF n < 0 THEN [Wide((-n) \div 65536, (-n) % 65536) EXCEPT !.neg = TRUE]
  ELSE Wide(n \div 65536, n % 65536)

IsZero(w) == w.hi = 0 /\ w.lo = 0 /\ w.top = << >>

\* limbs * base + carry from limb i on.
RECURSIVE MulAddFrom(_, _, _, _)
MulAddFrom(limbs, i, base, carry) ==
  IF i > Len(limbs) THEN (IF carry = 0 THEN << >> ELSE << carry >>)
  ELSE << (limbs[i] * base + carry) % 65536 >>
         \o MulAddFrom(limbs, i + 1, base, (limbs[i] * base + carry) \div 65536)

\* w * base + d for a non-negative w and a digit d of the base.
MulAdd(w, base, d) == FromLimbs(MulAddFrom(Limbs(w), 1, base, d))

MulAdd10(w, d) == MulAdd(w, 10, d)

\* The limbs i..1 of limbs \div 10 (highest first) followed by the
\* remainder, rem being the remainder of the limbs above i.
RECURSIVE DivMod10From(_, _, _)
DivMod10From(limbs, i, rem) ==
  IF i = 0 THEN << rem >>
  ELSE << (rem * 65536 + limbs[i]) \div 10 >>
         \o DivMod10From(limbs, i - 1, (rem * 65536 + limbs[i]) % 10)

\* (quotient, remainder) of a non-negative w by 10.
DivMod10(w) ==
  LET Result(d, n) ==
        [q |-> FromLimbs([k \in 1..n |-> d[n + 1 - k]]), r |-> d[n + 1]]
  IN  Result(DivMod10From(Limbs(w), Len(Limbs(w)), 0), Len(Limbs(w)))

RECURSIVE DecDigits(_)
DecDigits(w) ==
  LET Digits(dm) ==
        IF IsZero(dm.q) THEN << 48 + dm.r >> ELSE Append(DecDigits(dm.q), 48 + dm.r)
  IN  Digits(DivMod10(w))

\* str(n) / f"{n}" of an integer.
Str(w) == IF w.neg THEN << 45 >> \o DecDigits(w) ELSE DecDigits(w)

StrInt(n) == Str(PyInt(n))

----------------------------------------------------------------------------
(* bytes.decode("utf-8"), str.strip() and int(str).                        *)

IsCont(b) == b >= 128 /\ b <= 191

\* Length of the UTF-8 sequence starting at s[i], 0 when it is malformed.
Utf8Len(s, i) ==
  LET b  == s[i]
      c1 == IF i + 1 <= Len(s) THEN s[i + 1] ELSE 0
      c2 == IF i + 2 <= Len(s) THEN s[i + 2] ELSE 0
      c3 == IF i + 3 <= Len(s) THEN s[i + 3] ELSE 0
  IN  IF b <= 127 THEN 1
      ELSE IF b >= 194 /\ b <= 223 THEN (IF IsCont(c1) THEN 2 ELSE 0)
      ELSE IF b >= 224 /\ b <= 239
        THEN (IF /\ IsCont(c1) /\ IsCont(c2)
                 /\ (b = 224 => c1 >= 160)
                 /\ (b = 237 => c1 <= 159)
              THEN 3 ELSE 0)
      ELSE IF b >= 240 /\ b <= 244
        THEN (IF /\ IsCont(c1) /\ IsCont(c2) /\ IsCont(c3)
                 /\ (b = 240 => c1 >= 144)
                 /\ (b = 244 => c1 <= 143)
              THEN 4 ELSE 0)
      ELSE 0

Utf8Char(s, i, n) ==
  IF n = 1 THEN s[i]
  ELSE IF n = 2 THEN (s[i] - 192) * 64 + (s[i + 1] - 128)
  ELSE IF n = 3 THEN (s[i] - 224) * 4096 + (s[i + 1] - 128) * 64 + (s[i + 2] - 128)
  ELSE (s[i] - 240) * 262144 + (s[i + 1] - 128) * 4096
         + (s[i + 2] - 128) * 64 + (s[i + 3] - 128)

RECURSIVE Utf8From(_, _)
Utf8From(s, i) ==
  LET Joined(n, rest) ==
        [ok  |-> rest.ok,
         str |-> IF rest.ok THEN << Utf8Char(s, i, n) >> \o rest.str ELSE << >>]
      Decoded(n) ==
        IF n = 0 THEN [ok |-> FALSE, str |-> << >>] ELSE Joined(n, Utf8From(s, i + n))
  IN  IF i > Len(s) THEN [ok |-> TRUE, str |-> << >>] ELSE Decoded(Utf8Len(s, i))

\* bytes(line).decode("utf-8"): ok = FALSE stands for UnicodeDecodeError.
Utf8Decode(s) == Utf8From(s, 1)

\* str.isspace() of one character.
IsSpace(c) ==
  \/ c >= 9 /\ c <= 13
  \/ c >= 28 /\ c <= 32
  \/ c \in {133, 160, 5760, 8232, 8233, 8239, 8287, 12288}
  \/ c >= 8192 /\ c <= 8202

RECURSIVE LStrip(_)
LStrip(s) == IF s # << >> /\ IsSpace(Head(s)) THEN LStrip(Tail(s)) ELSE s

RECURSIVE RStrip(_)
RStrip(s) ==
  IF s # << >> /\ IsSpace(s[Len(s)]) THEN RStrip(SubSeq(s, 1, Len(s) - 1)) ELSE s

\* str.strip()
Strip(s) == RStrip(LStrip(s))

\* The characters of value 0 of the decimal digits of Unicode (category Nd):
\* the digits 0..9 of a script follow one another.
DigitZeros ==
  { 48, 1632, 1776, 1984, 2406, 2534, 2662, 2790, 2918, 3046, 3174, 3302,
    3430, 3558, 3664, 3792, 3872, 4160, 4240, 6112, 6160, 6470, 6608, 6784,
    6800, 6992, 7088, 7232, 7248, 42528, 43216, 43264, 43472, 43504, 43600,
    44016, 65296, 66720, 68912, 69734, 69872, 69942, 70096, 70384, 70736,
    70864, 71248, 71360, 71472, 71904, 72016, 72784, 73040, 73120, 92768,
    92864, 93008, 120782, 120792, 120802, 120812, 120822, 123200, 123632,
    125264, 130032 }

\* A decimal digit as int() reads it, and its value.
IsDigit(c) == \E zero \in DigitZeros : c >= zero /\ c <= zero + 9

DigitValue(c) == c - (CHOOSE zero \in DigitZeros : c >= zero /\ c <= zero + 9)

\* The white space int() skips around the literal: that of str.isspace() but
\* the separators 0x1c..0x1f.
IsIntSpace(c) == IsSpace(c) /\ ~(c >= 28 /\ c <= 31)

RECURSIVE IntLStrip(_)
IntLStrip(s) == IF s # << >> /\ IsIntSpace(Head(s)) THEN IntLStrip(Tail(s)) ELSE s

RECURSIVE IntRStrip(_)
IntRStrip(s) ==
  IF s # << >> /\ IsIntSpace(s[Len(s)]) THEN IntRStrip(SubSeq(s, 1, Len(s) - 1)) ELSE s

\* Digits of a decimal literal with single underscores between digits.
RECURSIVE DigitsOk(_, _)
DigitsOk(s, i) ==
  IF i > Len(s) THEN TRUE
  ELSE IF IsDigit(s[i]) THEN DigitsOk(s, i + 1)
  ELSE /\ s[i] = 95
       /\ i > 1 /\ IsDigit(s[i - 1])
       /\ i < Len(s) /\ IsDigit(s[i + 1])
       /\ DigitsOk(s, i + 1)

RECURSIVE DigitsValue(_, _, _)
DigitsValue(s, i, acc) ==
  IF i > Len(s) THEN acc
  ELSE IF s[i] = 95 THEN DigitsValue(s, i + 1, acc)
  ELSE DigitsValue(s, i + 1, MulAdd10(acc, DigitValue(s[i])))

\* int(s) of a str: ok = FALSE stands for ValueError.
ParseInt(s) ==
  LET Parsed(minus, good, v) ==
        [ok |-> good, val |-> [v EXCEPT !.neg = minus /\ ~IsZero(v)]]
      Digits(minus, body, good) ==
        Parsed(minus, good, IF good THEN DigitsValue(body, 1, PyInt(0)) ELSE PyInt(0))
      Signed(t, sgn) ==
        Digits(sgn /\ Head(t) = 45, IF sgn THEN Tail(t) ELSE t,
               (IF sgn THEN Tail(t) ELSE t) # << >>
                 /\ DigitsOk(IF sgn THEN Tail(t) ELSE t, 1))
      Stripped(t) == Signed(t, t # << >> /\ Head(t) \in {43, 45})
  IN  Stripped(IntRStrip(IntLStrip(s)))

----------------------------------------------------------------------------
(* Return codes and exceptions.                                            *)

CMD_SUCCESS == PyInt(0)

SECTOR_NOT_BLANK == PyInt(8)

COMPARE_ERROR == PyInt(10)

NoStatusResponse == PyInt(255)

\* _return_code_success
ReturnCodeSuccess(code) == code = CMD_SUCCESS

\* _raise_return_code_error: the exception the code raises, "none" for success.
RaiseReturnCodeError(code) == IF ReturnCodeSuccess(code) THEN "none" ELSE "UserWarning"

----------------------------------------------------------------------------
(* The serial line as the host sees it.                                    *)

kNewLine == << 13, 10 >>

\* UartDevice.ReadLine on the bytes rx waiting in the serial input: pyserial's
\* readline returns the bytes through the first LF, or, when the timeout
\* expires first, the bytes received so far (possibly none); bytes that are
\* not UTF-8 raise TimeoutError.  rest = the bytes left unread.
ReadLine(rx) ==
  LET Decoded(raw, dec) ==
        [timeout |-> ~dec.ok, line |-> dec.str, rest |-> Drop(rx, Len(raw))]
      Raw(raw) == Decoded(raw, Utf8Decode(raw))
      UpTo(i) == Raw(IF i = 0 THEN rx ELSE SubSeq(rx, 1, i))
  IN  UpTo(IndexOf(rx, 10))

\* ISPConnection._get_return_code(command_string).  rx is what waits in the
\* serial input when the call starts, first what gets there besides before
\* the first _read_line returns, second what gets there between the two
\* reads.  exc = "ValueError" when int(resp) raises; nudge = the newline
\* written in the TimeoutError handler; rx = what the call leaves unread.
GetReturnCodeReads(command_string, rx, first, second) ==
  LET Code(resp, p, unread) ==
        IF resp.timeout
          THEN [exc |-> "none", code |-> NoStatusResponse, rx |-> unread, nudge |-> TRUE]
        ELSE IF Len(resp.line) = 0
          THEN [exc |-> "none", code |-> NoStatusResponse, rx |-> unread, nudge |-> FALSE]
        ELSE IF ~p.ok
          THEN [exc |-> "ValueError", code |-> PyInt(0), rx |-> unread, nudge |-> FALSE]
        ELSE [exc |-> "none", code |-> p.val, rx |-> unread, nudge |-> FALSE]
      Resp(resp, later) == Code(resp, ParseInt(resp.line), resp.rest \o later)
      First(r1) ==
        IF ~r1.timeout /\ Strip(r1.line) = Strip(command_string)
          THEN Resp(ReadLine(r1.rest \o second), << >>)
          ELSE Resp(r1, second)
  IN  First(ReadLine(rx \o first))

\* _get_return_code with the echo discarded by the echo flag.
GetReturnCodeEchoFlag(command_string, rx, echo_on) ==
  LET Code(resp, p) ==
        IF resp.timeout
          THEN [exc |-> "none", code |-> NoStatusResponse, rx |-> resp.rest, nudge |-> TRUE]
        ELSE IF Len(resp.line) = 0
          THEN [exc |-> "none", code |-> NoStatusResponse, rx |-> resp.rest, nudge |-> FALSE]
        ELSE IF ~p.ok
          THEN [exc |-> "ValueError", code |-> PyInt(0), rx |-> resp.rest, nudge |-> FALSE]
        ELSE [exc |-> "none", code |-> p.val, rx |-> resp.rest, nudge |-> FALSE]
      Resp(resp) == Code(resp, ParseInt(resp.line))
      First(r1) ==
        Resp(IF ~r1.timeout /\ echo_on THEN ReadLine(r1.rest) ELSE r1)
  IN  First(ReadLine(rx))

\* _get_return_code when all of the answer is in the serial input.
GetReturnCode(command_string, rx, echo_on) ==
  GetReturnCodeReads(command_string, rx, << >>, << >>)

\* One _write call: the bytes handed to the serial device.
Frame(b) == [k |-> "bytes", b |-> b]

\* The frames _write_command and _get_return_code put on the wire.
CommandFrames(command_string, rc) ==
  << Frame(command_string \o kNewLine) >>
    \o (IF rc.nudge THEN << Frame(kNewLine) >> ELSE << >>)

----------------------------------------------------------------------------
(* ISPConnection methods as functions of the bytes waiting in the serial   *)
(* input (rx: what was unread before the call followed by what the device  *)
(* sends in reply).  Each yields the exception raised ("none" if it        *)
(* returns), the value returned, the bytes left unread and the frames      *)
(* written.                                                                *)

\* ISPConnection.kWordSize, ChipDescription.kWordSize
kWordSize == 4

\* ISPConnection._write_command
WriteCommandPeek(command_string, rx, echo_on) ==
  LET Sent(rc) ==
        [exc |-> rc.exc, code |-> rc.code, rx |-> rx,
         tx |-> CommandFrames(command_string, rc)]
  IN  Sent(GetReturnCode(command_string, rx, echo_on))

WriteCommand(command_string, rx, echo_on) ==
  LET Sent(rc) ==
        [exc |-> rc.exc, code |-> rc.code, rx |-> rc.rx,
         tx |-> CommandFrames(command_string, rc)]
  IN  Sent(GetReturnCode(command_string, rx, echo_on))

\* A method that sends one command and raises unless it returns CMD_SUCCESS
\* (Unlock, PrepSectorsForWrite, EraseSector, CopyRAMToFlash, ...).
SimpleCommand(command_string, rx, echo_on) ==
  LET Checked(r) ==
        [exc |-> IF r.exc # "none" THEN r.exc ELSE RaiseReturnCodeError(r.code),
         val |-> r.code, rx |-> r.rx, tx |-> r.tx]
  IN  Checked(WriteCommand(command_string, rx, echo_on))

\* "A 1" / "A 0"
EchoCommand(on) == << 65, 32 >> \o (IF on THEN << 49 >> ELSE << 48 >>)

\* ISPConnection.SetEcho: echo_on is assigned only when the command succeeded.
SetEcho(on, rx, echo_on) ==
  LET Assigned(r) ==
        [exc |-> r.exc, val |-> r.val, rx |-> r.rx, tx |-> r.tx,
         echo_on |-> IF r.exc = "none" THEN on ELSE echo_on]
  IN  Assigned(SimpleCommand(EchoCommand(on), rx, echo_on))

\* f"{letter} {a} {b}"
Command2(letter, a, b) == << letter, 32 >> \o StrInt(a) \o << 32 >> \o StrInt(b)

\* f"{letter} {a} {b} {c}"
Command3(letter, a, b, c) == Command2(letter, a, b) \o << 32 >> \o StrInt(c)

\* The two diagnostic lines CheckSectorsBlank reads inside try/except
\* TimeoutError: the second is not read when the first raises.
ReadTwoLines(rx) ==
  LET Second(l1) == IF l1.timeout THEN l1.rest ELSE ReadLine(l1.rest).rest
  IN  Second(ReadLine(rx))

\* ISPConnection.CheckSectorsBlank
CheckSectorsBlankOneLine(start, end, rx, echo_on) ==
  LET Checked(r) ==
        IF r.exc # "none"
          THEN [exc |-> r.exc, val |-> FALSE, rx |-> r.rx, tx |-> r.tx]
        ELSE [exc |-> IF r.code \in {CMD_SUCCESS, SECTOR_NOT_BLANK}
                        THEN "none" ELSE RaiseReturnCodeError(r.code),
              val |-> ReturnCodeSuccess(r.code),
              rx  |-> IF r.code = SECTOR_NOT_BLANK THEN ReadLine(r.rx).rest ELSE r.rx,
              tx  |-> r.tx]
  IN  IF start > end
        THEN [exc |-> "AssertionError", val |-> FALSE, rx |-> rx, tx |-> << >>]
        ELSE Checked(WriteCommand(Command2(73, start, end), rx, echo_on))

CheckSectorsBlank(start, end, rx, echo_on) ==
  LET Checked(r) ==
        IF r.exc # "none"
          THEN [exc |-> r.exc, val |-> FALSE, rx |-> r.rx, tx |-> r.tx]
        ELSE [exc |-> IF r.code \in {CMD_SUCCESS, SECTOR_NOT_BLANK}
                        THEN "none" ELSE RaiseReturnCodeError(r.code),
              val |-> ReturnCodeSuccess(r.code),
              rx  |-> IF r.code = SECTOR_NOT_BLANK THEN ReadTwoLines(r.rx) ELSE r.rx,
              tx  |-> r.tx]
  IN  IF start > end
        THEN [exc |-> "AssertionError", val |-> FALSE, rx |-> rx, tx |-> << >>]
        ELSE Checked(WriteCommand(Command2(73, start, end), rx, echo_on))

\* f"M {address1} {address2} {num_bytes} {kNewLine}": the command string
\* carries its own line end after a space.
CompareCommand(address1, address2, num_bytes) ==
  Command3(77, address1, address2, num_bytes) \o << 32 >> \o kNewLine

\* What _write and _get_return_code put on the wire for M.
CompareFrames(command, rc) ==
  << Frame(command) >> \o (IF rc.nudge THEN << Frame(kNewLine) >> ELSE << >>)

\* ISPConnection.MemoryLocationsEqual
MemoryLocationsEqualNoLine(address1, address2, num_bytes, rx, echo_on) ==
  LET Compared(command, rc) ==
        IF rc.exc # "none"
          THEN [exc |-> rc.exc, val |-> FALSE, rx |-> rc.rx,
                tx |-> CompareFrames(command, rc)]
        ELSE [exc |-> IF rc.code \in {CMD_SUCCESS, COMPARE_ERROR}
                        THEN "none" ELSE RaiseReturnCodeError(rc.code),
              val |-> ReturnCodeSuccess(rc.code),
              rx  |-> rc.rx,
              tx  |-> CompareFrames(command, rc)]
      Written(command) == Compared(command, GetReturnCode(command, rx, echo_on))
  IN  Written(CompareCommand(address1, address2, num_bytes))

MemoryLocationsEqual(address1, address2, num_bytes, rx, echo_on) ==
  LET Compared(command, rc) ==
        IF rc.exc # "none"
          THEN [exc |-> rc.exc, val |-> FALSE, rx |-> rc.rx,
                tx |-> CompareFrames(command, rc)]
        ELSE [exc |-> IF rc.code \in {CMD_SUCCESS, COMPARE_ERROR}
                        THEN "none" ELSE RaiseReturnCodeError(rc.code),
              val |-> ReturnCodeSuccess(rc.code),
              rx  |-> IF rc.code = COMPARE_ERROR THEN ReadLine(rc.rx).rest ELSE rc.rx,
              tx  |-> CompareFrames(command, rc)]
      Written(command) == Compared(command, GetReturnCode(command, rx, echo_on))
  IN  Written(CompareCommand(address1, address2, num_bytes))

\* ISPConnection.ReadMemory.  buf is data_buffer_in.  After the return code the
\* method polls _read() until num_bytes bytes are buffered; exc = "NoReturn"
\* when the bytes never come.  It then returns the whole buffer.
ReadMemory(start, num_bytes, rx, buf, echo_on) ==
  LET Read(r, got, left) ==
        IF r.exc # "none"
          THEN [exc |-> r.exc, val |-> << >>, rx |-> r.rx, buf |-> buf, tx |-> r.tx]
        ELSE IF Len(got) < num_bytes
          THEN [exc |-> "NoReturn", val |-> << >>, rx |-> left, buf |-> got, tx |-> r.tx]
        ELSE [exc |-> IF Len(got) = num_bytes THEN "none" ELSE "AssertionError",
              val |-> got, rx |-> left, buf |-> << >>, tx |-> r.tx]
      Polled(r) ==
        Read(r, IF Len(buf) < num_bytes THEN buf \o r.rx ELSE buf,
                IF Len(buf) < num_bytes THEN << >> ELSE r.rx)
  IN  IF num_bytes % 4 # 0
        THEN [exc |-> "AssertionError", val |-> << >>, rx |-> rx, buf |-> buf, tx |-> << >>]
        ELSE Polled(SimpleCommand(Command2(82, start, num_bytes), rx, echo_on))

\* ISPConnection.Unlock
Unlock(rx, echo_on) == SimpleCommand(<< 85, 32 >> \o StrInt(23130), rx, echo_on)

\* ISPConnection.PrepSectorsForWrite
PrepSectorsForWrite(start, end, rx, echo_on) ==
  SimpleCommand(Command2(80, start, end), rx, echo_on)

\* ISPConnection.EraseSector
EraseSector(start, end, rx, echo_on) ==
  SimpleCommand(Command2(69, start, end), rx, echo_on)

\* ISPConnection.CopyRAMToFlash
CopyRAMToFlash(flash_address, ram_address, num_bytes, rx, echo_on) ==
  SimpleCommand(Command3(67, flash_address, ram_address, num_bytes), rx, echo_on)

\* The frame of a payload written raw; `data` names the bytes.
DataFrame(data) == [k |-> "data", d |-> data]

\* ISPConnection.WriteToRam: the payload follows a successful W and no reply
\* to it is read.
WriteToRamNoPayload(start, data_len, data, rx, echo_on) ==
  IF data_len % kWordSize # 0
    THEN [exc |-> "AssertionError", val |-> PyInt(0), rx |-> rx, tx |-> << >>]
    ELSE SimpleCommand(Command2(87, start, data_len), rx, echo_on)

WriteToRam(start, data_len, data, rx, echo_on) ==
  LET Streamed(r) ==
        IF r.exc # "none" THEN r
        ELSE [exc |-> "none", val |-> r.val, rx |-> r.rx,
              tx |-> r.tx \o << DataFrame(data) >>]
  IN  IF data_len % kWordSize # 0
        THEN [exc |-> "AssertionError", val |-> PyInt(0), rx |-> rx, tx |-> << >>]
        ELSE Streamed(SimpleCommand(Command2(87, start, data_len), rx, echo_on))

\* ISPConnection.ReadCRC.  reset() empties the serial input first, so rx is
\* what arrives after the command: int() of the line after the return code.
ReadCRC(address, num_bytes, rx, echo_on) ==
  LET Value(r, l, p) ==
        IF l.timeout
          THEN [exc |-> "TimeoutError", val |-> PyInt(0), rx |-> l.rest, tx |-> r.tx]
        ELSE IF ~p.ok
          THEN [exc |-> "ValueError", val |-> PyInt(0), rx |-> l.rest, tx |-> r.tx]
        ELSE [exc |-> "none", val |-> p.val, rx |-> l.rest, tx |-> r.tx]
      Answer(r, l) == Value(r, l, ParseInt(l.line))
      Checked(r) == IF r.exc # "none" THEN r ELSE Answer(r, ReadLine(r.rx))
  IN  Checked(SimpleCommand(Command2(83, address, num_bytes), rx, echo_on))

\* ISPConnection.Go: no response is expected, and a response that came is
\* checked.
Go(address, thumb_mode, rx, echo_on) ==
  LET Checked(r) ==
        [exc |-> IF r.exc # "none" THEN r.exc
                 ELSE IF r.code # NoStatusResponse THEN RaiseReturnCodeError(r.code)
                 ELSE "none",
         val |-> r.code, rx |-> r.rx, tx |-> r.tx]
  IN  Checked(WriteCommand(<< 71, 32 >> \o Str(address) \o << 32 >>
                             \o (IF thumb_mode THEN << 84 >> ELSE << >>),
                           rx, echo_on))

\* ISPConnection.ErasePages
ErasePages(start, end, rx, echo_on) ==
  SimpleCommand(Command2(88, start, end), rx, echo_on)

\* ISPConnection.ReadWriteFAIM
ReadWriteFAIM(rx, echo_on) == SimpleCommand(<< 79 >>, rx, echo_on)

\* n calls of _read_line one after the other: the lines read, the bytes left
\* unread, and whether one of them raised TimeoutError (no line is read
\* after that one).
RECURSIVE ReadLines(_, _)
ReadLines(n, rx) ==
  LET Then(l, more) ==
        [timeout |-> more.timeout, lines |-> << l.line >> \o more.lines,
         rest |-> more.rest]
      Next1(l) ==
        IF l.timeout THEN [timeout |-> TRUE, lines |-> << >>, rest |-> l.rest]
        ELSE Then(l, ReadLines(n - 1, l.rest))
  IN  IF n = 0 THEN [timeout |-> FALSE, lines |-> << >>, rest |-> rx]
      ELSE Next1(ReadLine(rx))

\* The hexadecimal digits of limb i and of the limbs below it.
RECURSIVE HexOfLimbs(_, _)
HexOfLimbs(limbs, i) ==
  LET HexChar(d) == IF d < 10 THEN 48 + d ELSE 87 + d
  IN  IF i = 0 THEN << >>
      ELSE << HexChar(limbs[i] \div 4096), HexChar((limbs[i] \div 256) % 16),
              HexChar((limbs[i] \div 16) % 16), HexChar(limbs[i] % 16) >>
             \o HexOfLimbs(limbs, i - 1)

RECURSIVE StripZeros(_)
StripZeros(digits) ==
  IF Len(digits) > 1 /\ Head(digits) = 48 THEN StripZeros(Tail(digits)) ELSE digits

\* "%08x" % w: the sign counts for the width.
Format08x(w) ==
  LET Padded(sign, digits) ==
        sign \o Rep(48, IF Len(sign) + Len(digits) < 8
                          THEN 8 - Len(sign) - Len(digits) ELSE 0) \o digits
  IN  Padded(IF w.neg THEN << 45 >> ELSE << >>,
             StripZeros(HexOfLimbs(Limbs(w), Len(Limbs(w)))))

\* " ".join(["0x%08x" % int(uid) for uid in uuids]): ok = FALSE stands for
\* the ValueError of int().
RECURSIVE JoinUids(_)
JoinUids(uuids) ==
  LET Joined(p, rest) ==
        [ok  |-> p.ok /\ rest.ok,
         str |-> IF p.ok /\ rest.ok
                   THEN << 48, 120 >> \o Format08x(p.val)
                          \o (IF Len(uuids) > 1 THEN << 32 >> ELSE << >>) \o rest.str
                   ELSE << >>]
  IN  IF uuids = << >> THEN [ok |-> TRUE, str |-> << >>]
      ELSE Joined(ParseInt(Head(uuids)), JoinUids(Tail(uuids)))

\* ISPConnection.ReadUID: four lines follow the return code.
ReadUID(rx, echo_on) ==
  LET Value(r, l, joined) ==
        IF l.timeout
          THEN [exc |-> "TimeoutError", val |-> << >>, rx |-> l.rest, tx |-> r.tx]
        ELSE IF ~joined.ok
          THEN [exc |-> "ValueError", val |-> << >>, rx |-> l.rest, tx |-> r.tx]
        ELSE [exc |-> "none", val |-> joined.str, rx |-> l.rest, tx |-> r.tx]
      Answer(r, l) ==
        Value(r, l, IF l.timeout THEN [ok |-> FALSE, str |-> << >>] ELSE JoinUids(l.lines))
      Checked(r) ==
        IF r.exc # "none" THEN [exc |-> r.exc, val |-> << >>, rx |-> r.rx, tx |-> r.tx]
        ELSE Answer(r, ReadLines(4, r.rx))
  IN  Checked(SimpleCommand(<< 78 >>, rx, echo_on))

\* ISPConnection.ReadBootCodeVersion: f"{major}.{minor}", the minor read
\* first; a line that raises TimeoutError leaves it and what follows at 0.
ReadBootCodeVersion(rx, echo_on) ==
  LET Version(r, minor, major, rest) ==
        [exc |-> "none", val |-> major \o << 46 >> \o minor, rx |-> rest, tx |-> r.tx]
      Second(r, l1, l2) ==
        IF l2.timeout THEN Version(r, Strip(l1.line), << 48 >>, l2.rest)
        ELSE Version(r, Strip(l1.line), Strip(l2.line), l2.rest)
      First(r, l1) ==
        IF l1.timeout THEN Version(r, << 48 >>, << 48 >>, l1.rest)
        ELSE Second(r, l1, ReadLine(l1.rest))
      Checked(r) ==
        IF r.exc # "none" THEN [exc |-> r.exc, val |-> << >>, rx |-> r.rx, tx |-> r.tx]
        ELSE First(r, ReadLine(r.rx))
  IN  Checked(SimpleCommand(<< 75 >>, rx, echo_on))

\* f"Z {start} {end} {wait_states} {mode}"
SignatureCommand(start, end, wait_states, mode) ==
  Command3(90, start, end, wait_states) \o << 32 >> \o StrInt(mode)

\* ISPConnection.ReadFlashSig: the four lines after the return code.
ReadFlashSig(start, end, wait_states, mode, rx, echo_on) ==
  LET Value(r, l) ==
        IF l.timeout
          THEN [exc |-> "TimeoutError", val |-> << >>, rx |-> l.rest, tx |-> r.tx]
        ELSE [exc |-> "none", val |-> l.lines, rx |-> l.rest, tx |-> r.tx]
      Checked(r) ==
        IF r.exc # "none" THEN [exc |-> r.exc, val |-> << >>, rx |-> r.rx, tx |-> r.tx]
        ELSE Value(r, ReadLines(4, r.rx))
  IN  IF ~(start < end)
        THEN [exc |-> "AssertionError", val |-> << >>, rx |-> rx, tx |-> << >>]
        ELSE Checked(SimpleCommand(SignatureCommand(start, end, wait_states, mode),
                                   rx, echo_on))

\* needle in haystack, of two strings
Contains(needle, haystack) ==
  \E i \in 0..(Len(haystack) - Len(needle)) :
    SubSeq(haystack, i + 1, i + Len(needle)) = needle

\* ISPConnection.SetCrystalFrequency: the frequency is written with a space
\* before the line end, then up to three lines are read for "OK\r\n"; a line
\* that raises TimeoutError counts as one of the three.
RECURSIVE VerifyFrom(_, _)
VerifyFrom(tries, rx) ==
  LET Looked(l) ==
        IF ~l.timeout /\ Contains(<< 79, 75 >> \o kNewLine, l.line)
          THEN [verified |-> TRUE, rest |-> l.rest]
          ELSE VerifyFrom(tries - 1, l.rest)
  IN  IF tries = 0 THEN [verified |-> FALSE, rest |-> rx] ELSE Looked(ReadLine(rx))

SetCrystalFrequency(frequency_khz, rx) ==
  LET Verified(v) ==
        [exc |-> IF v.verified THEN "none" ELSE "UserWarning",
         val |-> v.verified, rx |-> v.rest,
         tx |-> << Frame(StrInt(frequency_khz) \o << 32 >> \o kNewLine) >>]
  IN  Verified(VerifyFrom(3, rx))

\* CheckFlashWrite(isp, data, flash_address): data is the object handed in,
\* its type and its items.  ReadMemory returns bytes, so that data of type
\* bytes raises TypeError and a list is equal to no bytes.
CheckFlashWrite(data, flash_address, rx, buf, echo_on) ==
  LET Compared(r) ==
        IF r.exc # "none"
          THEN [exc |-> r.exc, val |-> FALSE, rx |-> r.rx, buf |-> r.buf, tx |-> r.tx]
        ELSE IF Len(data.items) # Len(r.val)
          THEN [exc |-> "ValueError", val |-> FALSE, rx |-> r.rx, buf |-> r.buf, tx |-> r.tx]
        ELSE IF data.type = "bytes"
          THEN [exc |-> "TypeError", val |-> FALSE, rx |-> r.rx, buf |-> r.buf, tx |-> r.tx]
        ELSE [exc |-> "none",
              val |-> data.type = "bytearray" /\ data.items = r.val,
              rx |-> r.rx, buf |-> r.buf, tx |-> r.tx]
  IN  Compared(ReadMemory(flash_address, Len(data.items), rx, buf, echo_on))

----------------------------------------------------------------------------
(* ChipDescription.                                                        *)

kPageSizeBytes == 64

SectorSizePages == 16

kCheckSumLocation == 7

\* Largest sector count of the parts in the model.
NumSectors == 3

\* A part with `sectors` flash sectors of 1 KiB from address 0 and 4 KiB of
\* RAM at 0x10000000 whose staging buffer starts at offset 0x800.
Part(sectors) ==
  [FlashRange    |-> << 0, sectors * 1024 - 1 >>,
   RAMRange      |-> << 268435456, 268435456 + 4096 - 1 >>,
   RAMBufferSize |-> 1024,
   SectorCount   |-> sectors,
   RAMStartWrite |-> 268435456 + 2048]

Parts == { Part(n) : n \in 1..NumSectors }

\* ChipDescription.sector_bytes (UserWarning when it exceeds RAMBufferSize)
sector_bytes == SectorSizePages * kPageSizeBytes

SectorBytesRaises(c) == sector_bytes > c.RAMBufferSize

FlashAddressLegal(c, address) ==
  c.FlashRange[1] <= address /\ address <= c.FlashRange[2]

FlashRangeLegal(c, address, length) ==
  /\ FlashAddressLegal(c, address)
  /\ FlashAddressLegal(c, address + length - 1)
  /\ length <= c.FlashRange[2] - c.FlashRange[1]
  /\ address % kPageSizeBytes = 0

RamAddressLegal(c, address) ==
  c.RAMRange[1] <= address /\ address <= c.RAMRange[2]

RamRangeLegal(c, address, length) ==
  /\ RamAddressLegal(c, address)
  /\ RamAddressLegal(c, address + length - 1)
  /\ length <= c.RAMRange[2] - c.RAMRange[1]
  /\ address % kWordSize = 0

----------------------------------------------------------------------------
(* tools.calc_crc: zlib.crc32(frame, 0), table driven, on 32-bit values    *)
(* kept as << high 16 bits, low 16 bits >>.                                *)

RECURSIVE BitXor(_, _, _)
BitXor(a, b, n) ==
  IF n = 0 THEN 0 ELSE ((a + b) % 2) + 2 * BitXor(a \div 2, b \div 2, n - 1)

XorTable == [a \in 0..255 |-> [b \in 0..255 |-> BitXor(a, b, 8)]]

Xor8(a, b) == XorTable[a][b]

Xor16(a, b) == Xor8(a \div 256, b \div 256) * 256 + Xor8(a % 256, b % 256)

ShiftRight1(c) == << c[1] \div 2, c[2] \div 2 + (c[1] % 2) * 32768 >>

\* One entry of the table of the reflected polynomial 0xEDB88320.
RECURSIVE CrcTableEntry(_, _)
CrcTableEntry(c, k) ==
  IF k = 0 THEN c
  ELSE CrcTableEntry(IF c[2] % 2 = 1
                       THEN << Xor16(ShiftRight1(c)[1], 60856),
                               Xor16(ShiftRight1(c)[2], 33568) >>
                       ELSE ShiftRight1(c),
                     k - 1)

CrcTable == [n \in 0..255 |-> CrcTableEntry(<< 0, n >>, 8)]

\* The register after one more byte.
CrcStep(c, b) ==
  << Xor16(CrcTable[Xor8(c[2] % 256, b)][1], c[1] \div 256),
     Xor16(CrcTable[Xor8(c[2] % 256, b)][2], (c[1] % 256) * 256 + c[2] \div 256) >>

\* The register after the bytes frame[lo..hi].  The range is halved so that
\* the evaluation stays shallow, and the register of the left half is bound
\* as a value before the right half starts from it.
RECURSIVE CrcFold(_, _, _, _)
CrcFold(c, frame, lo, hi) ==
  IF lo > hi THEN c
  ELSE IF lo = hi THEN CrcStep(c, frame[lo])
  ELSE CHOOSE r \in { CrcFold(left, frame, (lo + hi) \div 2 + 1, hi) :
                      left \in { CrcFold(c, frame, lo, (lo + hi) \div 2) } } : TRUE

calc_crc(frame) ==
  CHOOSE crc \in { Wide(65535 - r[1], 65535 - r[2]) :
                   r \in { CrcFold(<< 65535, 65535 >>, f, 1, Len(f)) : f \in { frame } } } : TRUE

----------------------------------------------------------------------------
(* The bootable-image checksum (GetCheckSumedVectorTable, MakeBootable,    *)
(* tools.CalculateCheckSum).                                               *)

\* struct.unpack("<I", ...) of the 4 bytes of word k (from 0) of image.
WordAt(image, k) ==
  Wide(image[4 * k + 3] + 256 * image[4 * k + 4],
       image[4 * k + 1] + 256 * image[4 * k + 2])

\* entry % (1 << 32) as << high 16 bits, low 16 bits >>.
Residue32(entry) ==
  IF ~entry.neg THEN << entry.hi, entry.lo >>
  ELSE IF entry.lo > 0 THEN << 65535 - entry.hi, 65536 - entry.lo >>
  ELSE << (65536 - entry.hi) % 65536, 0 >>

RECURSIVE SumHi(_)
SumHi(frame) ==
  IF frame = << >> THEN 0 ELSE Residue32(Head(frame))[1] + SumHi(Tail(frame))

RECURSIVE SumLo(_)
SumLo(frame) ==
  IF frame = << >> THEN 0 ELSE Residue32(Head(frame))[2] + SumLo(Tail(frame))

\* The sum of the entries of frame (csum += entry), up to a multiple of 2^32:
\* each entry is added as its residue.
SumWords(frame) ==
  LET Sum(hi, lo) == Wide(hi + lo \div 65536, lo % 65536)
  IN  Sum(SumHi(frame), SumLo(frame))

\* tools.CalculateCheckSum: (1 << 32) - (csum % (1 << 32))
CalculateCheckSum(frame) ==
  LET Complement(csum) ==
        Wide(65536 - csum.hi - (IF csum.lo > 0 THEN 1 ELSE 0),
             (65536 - csum.lo) % 65536)
  IN  Complement(SumWords(frame))

\* struct.pack("<I", v); ok = FALSE stands for struct.error (v > 0xFFFFFFFF).
PackU32(v) ==
  [ok    |-> ~v.neg /\ v.top = << >>,
   bytes |-> << v.lo % 256, v.lo \div 256, v.hi % 256, v.hi \div 256 >>]

\* The place (from 1) of list[index] in a Python list of n items, 0 when the
\* index raises IndexError: a negative index counts from the end.
ListIndex(index, n) ==
  IF index >= 0 /\ index < n THEN index + 1
  ELSE IF index < 0 /\ index >= -n THEN index + n + 1
  ELSE 0

\* GetCheckSumedVectorTable: exc = "struct.error" when the image has fewer
\* than 32 bytes or the checksum does not fit 32 bits, "IndexError" when
\* vector_table_loc is no index of the eight words.
GetCheckSumedVectorTable(vector_table_loc, orig_image) ==
  LET Packed(vector_table) ==
        IF \E k \in 1..8 : ~PackU32(vector_table[k]).ok
          THEN [exc |-> "struct.error", bytes |-> << >>]
          ELSE [exc |-> "none",
                bytes |-> Flatten([k \in 1..8 |-> PackU32(vector_table[k]).bytes])]
      Summed(intvecs, at) ==
        Packed([intvecs EXCEPT ![at] = CalculateCheckSum(intvecs)])
      Cleared(at) ==
        Summed([k \in 1..8 |-> IF k = at THEN PyInt(0) ELSE WordAt(orig_image, k - 1)],
               at)
  IN  IF Len(orig_image) < 32 THEN [exc |-> "struct.error", bytes |-> << >>]
      ELSE IF ListIndex(vector_table_loc, 8) = 0
        THEN [exc |-> "IndexError", bytes |-> << >>]
      ELSE Cleared(ListIndex(vector_table_loc, 8))

MakeBootable(vector_table_loc, orig_image) ==
  LET Image(vt) ==
        IF vt.exc # "none" THEN vt
        ELSE [exc |-> "none", bytes |-> vt.bytes \o Drop(orig_image, Len(vt.bytes))]
  IN  Image(GetCheckSumedVectorTable(vector_table_loc, orig_image))

\* What the boot ROM checks: the first eight little-endian words sum to 0
\* modulo 2^32.
Bootable(image) ==
  LET Zero(sum) == sum.hi % 65536 = 0 /\ sum.lo = 0
  IN  /\ Len(image) >= 32
      /\ Zero(SumWords([k \in 1..8 |-> WordAt(image, k - 1)]))

\* image_list[vector_table_loc * kuint32_t_size + byte] = 0 for the four
\* bytes of the word.
ZeroWord(vector_table_loc, image) ==
  LET At(byte) == ListIndex(vector_table_loc * 4 + byte, Len(image))
  IN  IF \E byte \in 0..3 : At(byte) = 0
        THEN [exc |-> "IndexError", bytes |-> << >>]
        ELSE [exc |-> "none",
              bytes |-> [i \in 1..Len(image) |->
                           IF \E byte \in 0..3 : At(byte) = i THEN 0 ELSE image[i]]]

\* RemoveBootableCheckSum: MakeBootable(vector_table_loc, image) is called for
\* its exceptions only, then the four bytes of the checksum word are zeroed.
RemoveBootableCheckSum(vector_table_loc, image) ==
  LET Zeroed(made) ==
        IF made.exc # "none" THEN [exc |-> made.exc, bytes |-> << >>]
        ELSE ZeroWord(vector_table_loc, image)
  IN  Zeroed(MakeBootable(vector_table_loc, image))

\* tools.calc_sector_count: int(math.ceil(len(image) / sector_bytes))
calc_sector_count(image, bytes_per_sector) ==
  (Len(image) + bytes_per_sector - 1) \div bytes_per_sector

\* WriteSector: the data handed to WriteFlashSector.
PadSectorZeros(data) ==
  IF Len(data) # sector_bytes /\ Len(data) < sector_bytes
    THEN data \o Rep(0, sector_bytes - Len(data)) ELSE data

PadSector(data) ==
  IF Len(data) # sector_bytes /\ Len(data) < sector_bytes
    THEN data \o Rep(255, sector_bytes - Len(data)) ELSE data

----------------------------------------------------------------------------
(* Images and sector contents.                                             *)

\* The images handed to WriteImage: 1 fills three sectors but for the tail
\* of the last, 2 fills one sector exactly, the last sector of 3 is all
\* 0xFF, and the vector table of 4 sums to zero.
ImageIds == 1..4

ImageBytes(id) ==
  CASE id = 1 -> [i \in 1..2500 |-> IF i <= 32 THEN (i * 7) % 256
                                    ELSE 17 + (i - 1) \div sector_bytes]
    [] id = 2 -> [i \in 1..1024 |-> IF i <= 32 THEN (i * 11) % 256 ELSE 85]
    [] id = 3 -> [i \in 1..3072 |-> IF i <= 32 THEN (i * 13) % 256
                                    ELSE IF i <= 2048 THEN 51 ELSE 255]
    [] id = 4 -> [i \in 1..40 |-> 0]

\* image = MakeBootable(chip.kCheckSumLocation, imagein)
BootableImage == [id \in ImageIds |-> MakeBootable(kCheckSumLocation, ImageBytes(id))]

\* sector_count of WriteBinaryToFlash for the bootable image
SectorsOf == [id \in ImageIds |-> calc_sector_count(BootableImage[id].bytes, sector_bytes)]

\* One sector of content, named rather than spelled out: k = "fill" is
\* sector_bytes bytes of value a; k = "image" is what WriteSector makes of
\* data_chunk s of the bootable image a; g marks content whose last byte
\* arrived changed.
Block(k, a, s) == [k |-> k, a |-> a, s |-> s, g |-> FALSE]

Erased == Block("fill", 255, 0)

\* bytes([0xDE] * chip.sector_bytes)
NotBootableData == Block("fill", 222, 0)

\* What the staging buffer holds before anything is written to it.
RamAtReset == Block("fill", 170, 0)

ImageBlocks ==
  UNION { { Block("image", id, s) : s \in 0..(SectorsOf[id] - 1) } :
          id \in { i \in ImageIds : BootableImage[i].exc = "none" } }

Garbled(d) == [d EXCEPT !.g = TRUE]

Blocks ==
  LET host == ImageBlocks \cup { NotBootableData }
  IN  host \cup { Erased, RamAtReset } \cup { Garbled(d) : d \in host }

\* data_chunk = image[start:end] of WriteBinaryToFlash
DataChunk(image, sector, start_sector) ==
  Slice(image, (sector - start_sector) * sector_bytes,
               (sector - start_sector + 1) * sector_bytes)

BlockBytes(d) ==
  LET Arrived(clean) ==
        IF d.g THEN [clean EXCEPT ![sector_bytes] = (@ + 1) % 256] ELSE clean
  IN  IF d.k = "fill" THEN Arrived(Rep(d.a, sector_bytes))
      ELSE Arrived(PadSector(DataChunk(BootableImage[d.a].bytes, d.s, 0)))

BytesOf == [d \in Blocks |-> BlockBytes(d)]

\* tools.calc_crc of each content
CrcOf == [d \in Blocks |-> calc_crc(BytesOf[d])]

BootableOf == [d \in Blocks |-> Bootable(BytesOf[d])]

SameBytes(d, e) == BytesOf[d] = BytesOf[e]

\* Offset of the first byte in which two contents differ.
FirstMismatch(d, e) ==
  LET First(x, y) ==
        (CHOOSE i \in 1..sector_bytes :
           /\ x[i] # y[i]
           /\ \A j \in 1..(i - 1) : x[j] = y[j]) - 1
  IN  First(BytesOf[d], BytesOf[e])

----------------------------------------------------------------------------
(* The boot ROM at the other end of the line: flash sectors, the RAM       *)
(* staging buffer, the sectors prepared for writing and the unlock latch.  *)

\* Faults the line and the part may add to one programming run.
MaxFaults == 1

Command(op, a, b, c) == [op |-> op, a |-> a, b |-> b, c |-> c]

CodeLine(code) == StrInt(code) \o kNewLine

\* The content an address range of one sector refers to.
ContentAt(c, d, address) ==
  IF RamAddressLegal(c, address) THEN d.ram
  ELSE d.flash[(address - c.FlashRange[1]) \div sector_bytes]

\* The reply to a command and the state it leaves.  fault = "busy": the
\* command is refused with BUSY; "silent": it is not answered; "garbled":
\* the payload of W reaches RAM with a byte changed; "lost": the payload of
\* W does not reach RAM, which keeps what it held.
Device(c, d, cmd, fault, payload) ==
  IF fault = "busy" THEN [reply |-> CodeLine(11), dev |-> d]
  ELSE IF fault = "silent" THEN [reply |-> << >>, dev |-> d]
  ELSE CASE cmd.op = "U" ->
         [reply |-> CodeLine(0), dev |-> [d EXCEPT !.unlocked = TRUE]]
    [] cmd.op = "S" ->
         [reply |-> CodeLine(0) \o Str(CrcOf[ContentAt(c, d, cmd.a)]) \o kNewLine,
          dev   |-> d]
    [] cmd.op = "W" ->
         [reply |-> CodeLine(0),
          dev   |-> [d EXCEPT !.ram = IF fault = "garbled" THEN Garbled(payload)
                                       ELSE IF fault = "lost" THEN d.ram
                                       ELSE payload]]
    [] cmd.op = "M" ->
         [reply |-> IF SameBytes(ContentAt(c, d, cmd.a), ContentAt(c, d, cmd.b))
                      THEN CodeLine(0)
                      ELSE CodeLine(10)
                             \o StrInt(FirstMismatch(ContentAt(c, d, cmd.a),
                                                     ContentAt(c, d, cmd.b)))
                             \o kNewLine,
          dev   |-> d]
    [] cmd.op = "P" ->
         [reply |-> CodeLine(0), dev |-> [d EXCEPT !.prepared = cmd.a..cmd.b]]
    [] cmd.op = "E" ->
         IF ~d.unlocked THEN [reply |-> CodeLine(15), dev |-> d]
         ELSE IF ~(cmd.a..cmd.b \subseteq d.prepared) THEN [reply |-> CodeLine(9), dev |-> d]
         ELSE [reply |-> CodeLine(0),
               dev   |-> [d EXCEPT !.prepared = {},
                                   !.flash = [s \in DOMAIN d.flash |->
                                                IF s \in cmd.a..cmd.b THEN Erased
                                                ELSE d.flash[s]]]]
    [] cmd.op = "I" ->
         [reply |-> IF \A s \in cmd.a..cmd.b : SameBytes(d.flash[s], Erased)
                      THEN CodeLine(0)
                      ELSE CodeLine(8) \o CodeLine(0) \o CodeLine(0),
          dev   |-> d]
    [] cmd.op = "R" ->
         [reply |-> CodeLine(0) \o BytesOf[ContentAt(c, d, cmd.a)], dev |-> d]
    [] cmd.op = "C" ->
         IF ~d.unlocked THEN [reply |-> CodeLine(15), dev |-> d]
         ELSE IF (cmd.a - c.FlashRange[1]) \div sector_bytes \notin d.prepared
           THEN [reply |-> CodeLine(9), dev |-> d]
         ELSE [reply |-> CodeLine(0),
               dev   |-> [d EXCEPT !.prepared = {},
                                   !.flash[(cmd.a - c.FlashRange[1]) \div sector_bytes] = d.ram]]

----------------------------------------------------------------------------
(* State.                                                                  *)

VARIABLES
  pc,              \* position of the running operation
  chip,            \* the ChipDescription in use
  rx,              \* bytes waiting in the serial input
  tx,              \* frames written to the serial output, oldest first
  data_buffer_in,  \* ISPConnection.data_buffer_in
  echo_on,         \* ISPConnection.echo_on
  call,            \* the method called last and its arguments
  ret,             \* its outcome
  devOut,          \* what the device sent in reply to it
  imagein,         \* the image handed to WriteImage
  safe_write,      \* isp.settings.safe_write
  stage,           \* which WriteSector call of WriteImage is running
  todo,            \* sectors the loop of WriteBinaryToFlash has yet to write
  wfs,             \* the locals of the running WriteFlashSector call
  wsLog,           \* the WriteSector calls made so far, oldest first
  result,          \* how WriteImage ended
  wbf_return,      \* the value WriteBinaryToFlash returned
  device,          \* the state of the boot ROM
  faults,          \* faults so far
  flash0,          \* the flash before WriteImage
  wire,            \* bytes the device sent that have not reached the input
  iodevice         \* the serial port: open or not, its baud rate

sessionVars == << rx, tx, data_buffer_in, echo_on >>

callVars == << call, ret, devOut >>

jobVars == << imagein, safe_write, stage, todo, wfs, wsLog, result, wbf_return,
              device, faults, flash0, wire >>

vars == << pc, chip, iodevice, sessionVars, callVars, jobVars >>

----------------------------------------------------------------------------
(* Single protocol calls against a device that may answer anything.        *)

\* Longest run of lines the device sends after a return code.
MaxPayload == 3

Line(digits) == digits \o kNewLine

\* What may stand where the return code is expected: decimal codes, a line
\* that is no number, an empty line, bytes that are not UTF-8, an unfinished
\* line, nothing at all.
CodeLines ==
  { Line(<< 48 >>), Line(<< 56 >>), Line(<< 49, 48 >>), Line(<< 57 >>),
    Line(<< 50, 53, 53 >>), Line(<< 79, 75 >>), Line(<< >>), Line(<< 255 >>),
    << 49 >>, << >> }

PayloadLines == { Line(<< 52 >>), Line(<< 255 >>) }

RECURSIVE Payloads(_)
Payloads(n) ==
  IF n = 0 THEN { << >> }
  ELSE LET shorter == Payloads(n - 1)
       IN  shorter \cup { p \o l : p \in shorter, l \in PayloadLines }

AllPayloads == Payloads(MaxPayload)

\* A reply: the echo of the command line or nothing, what stands where the
\* return code is expected, and what follows it.  Nothing follows an
\* unfinished code line.
Reply(e, c, p) == [echo |-> e, code |-> c, payload |-> p]

ReplyBytes(reply) == reply.echo \o reply.code \o reply.payload

Finished(c) == c # << >> /\ c[Len(c)] = 10

\* Replies to a line command.
Replies(command_line) ==
  { Reply(e, c, p) : e \in { << >>, command_line }, c \in CodeLines,
                     p \in AllPayloads }
    \ { Reply(e, c, p) : e \in { << >>, command_line },
                         c \in { c \in CodeLines : ~Finished(c) },
                         p \in AllPayloads \ { << >> } }

\* Replies to R: raw bytes follow the code line.
RawReplies(command_line) ==
  { Reply(e, c, Rep(171, n)) : e \in { << >>, command_line },
                               c \in { c \in CodeLines : Finished(c) },
                               n \in { 0, 4, 8, 12 } }

\* The flash of a part before programming: blank, or image 1 as an earlier
\* WriteImage left it.
PriorFlash(c) ==
  { [s \in 0..(c.SectorCount - 1) |-> Erased],
    [s \in 0..(c.SectorCount - 1) |->
       IF s < SectorsOf[1] THEN Block("image", 1, s) ELSE Erased] }

\* UartDevice.__init__: the port is open at `baudrate`.
UartDevice(baudrate) == [open |-> TRUE, baudrate |-> baudrate]

\* BAUDRATES[0], the rate SetupChip opens the port at
kStartingBaudRate == 9600

NoCall ==
  /\ call = [op |-> "none"]
  /\ ret = [exc |-> "none", val |-> PyInt(0), tx |-> << >>]
  /\ devOut = Reply(<< >>, << >>, << >>)

\* A CRC not read yet.
NoCrc == [neg |-> FALSE, lo |-> -1, hi |-> -1, top |-> << >>]

\* The locals of WriteFlashSector before its first call; start and end count
\* the frames written before the call and up to its end.
NoSector ==
  [sector |-> 0, data |-> NotBootableData, data_crc |-> NoCrc,
   ram_crc |-> NoCrc, flash_crc |-> NoCrc, ram_equal |-> FALSE,
   verified |-> FALSE, start |-> 0, end |-> 0, outcome |-> "none"]

NoJob ==
  /\ stage = "none"
  /\ todo = << >>
  /\ wfs = NoSector
  /\ wsLog = << >>
  /\ result = "running"
  /\ wbf_return = "none"
  /\ faults = 0
  /\ flash0 = device.flash
  /\ wire = << >>

InitRC ==
  /\ pc = "fresh"
  /\ chip = Part(NumSectors)
  /\ rx = << >>
  /\ tx = << >>
  /\ data_buffer_in = << >>
  /\ echo_on = TRUE
  /\ iodevice = UartDevice(kStartingBaudRate)
  /\ NoCall
  /\ imagein = 1
  /\ safe_write = TRUE
  /\ device = [flash |-> [s \in 0..(chip.SectorCount - 1) |-> Erased],
               ram |-> RamAtReset, prepared |-> {}, unlocked |-> FALSE]
  /\ NoJob

\* The call `op` met `reply` and came out as r.
Finish(r, op, reply) ==
  /\ rx' = r.rx
  /\ tx' = tx \o r.tx
  /\ ret' = [exc |-> r.exc, val |-> r.val, tx |-> r.tx]
  /\ call' = op
  /\ devOut' = reply
  /\ UNCHANGED jobVars

CallSetEcho ==
  /\ pc = "fresh"
  /\ \E on \in BOOLEAN :
       \E reply \in { Reply(e, c, << >>) : e \in { << >>, Line(EchoCommand(on)) },
                                           c \in { Line(<< 48 >>), Line(<< 57 >>) } } :
         \E r \in { SetEcho(on, rx \o ReplyBytes(reply), echo_on) } :
             /\ Finish(r, [op |-> "SetEcho", on |-> on], reply)
             /\ echo_on' = r.echo_on
  /\ pc' = "ready"
  /\ UNCHANGED << chip, iodevice, data_buffer_in >>

Idle == pc \in { "fresh", "ready" }

\* "U 23130"
UnlockCommand == << 85, 32 >> \o StrInt(23130)

\* _write_command on its own: the value is the return code.
CallWriteCommand ==
  /\ Idle
  /\ \E command \in { UnlockCommand, << 74 >> } :
       \E reply \in Replies(Line(command)) :
         \E r \in { WriteCommand(command, rx \o ReplyBytes(reply), echo_on) } :
             Finish([exc |-> r.exc, val |-> r.code, rx |-> r.rx, tx |-> r.tx],
                    [op |-> "WriteCommand", command |-> command], reply)
  /\ pc' = "done"
  /\ UNCHANGED << chip, iodevice, data_buffer_in, echo_on >>

CallCheckSectorsBlank ==
  /\ Idle
  /\ \E start \in { 0, 1, chip.SectorCount }, end \in { chip.SectorCount - 1 } :
       \E reply \in Replies(Line(Command2(73, start, end))) :
         Finish(CheckSectorsBlank(start, end, rx \o ReplyBytes(reply), echo_on),
                [op |-> "CheckSectorsBlank", start |-> start, end |-> end], reply)
  /\ pc' = "done"
  /\ UNCHANGED << chip, iodevice, data_buffer_in, echo_on >>

CallMemoryLocationsEqual ==
  /\ Idle
  /\ \E reply \in Replies(CompareCommand(0, chip.RAMStartWrite, sector_bytes)) :
       Finish(MemoryLocationsEqual(0, chip.RAMStartWrite, sector_bytes,
                                   rx \o ReplyBytes(reply), echo_on),
              [op |-> "MemoryLocationsEqual"], reply)
  /\ pc' = "done"
  /\ UNCHANGED << chip, iodevice, data_buffer_in, echo_on >>

CallReadMemory ==
  /\ Idle
  /\ \E start \in { 0, chip.FlashRange[2] - 3, chip.RAMStartWrite },
        num_bytes \in { 4, 6, 8 } :
       \E reply \in RawReplies(Line(Command2(82, start, num_bytes))) :
         \E r \in { ReadMemory(start, num_bytes, rx \o ReplyBytes(reply),
                             data_buffer_in, echo_on) } :
             /\ Finish(r, [op |-> "ReadMemory", start |-> start,
                           num_bytes |-> num_bytes], reply)
             /\ data_buffer_in' = r.buf
  /\ pc' = "done"
  /\ UNCHANGED << chip, iodevice, echo_on >>

\* Replies to a command that is followed by no further line.
CodeReplies(command_line) ==
  { Reply(e, c, << >>) : e \in { << >>, command_line },
                         c \in { Line(<< 48 >>), Line(<< 57 >>), << >> } }

\* ISPConnection.WriteToRam called on its own, also with a length that is no
\* multiple of the word size and with ranges outside the RAM.
CallWriteToRam ==
  /\ Idle
  /\ \E start \in { chip.RAMStartWrite, chip.RAMStartWrite + 2, chip.RAMRange[2] - 3,
                    chip.FlashRange[1] },
        data_len \in { 4, 6, 8 } :
       \E reply \in CodeReplies(Line(Command2(87, start, data_len))) :
         Finish(WriteToRam(start, data_len, Rep(171, data_len),
                           rx \o ReplyBytes(reply), echo_on),
                [op |-> "WriteToRam", start |-> start, data_len |-> data_len], reply)
  /\ pc' = "done"
  /\ UNCHANGED << chip, iodevice, data_buffer_in, echo_on >>

\* ISPConnection.CopyRAMToFlash called on its own, also with ranges that are
\* not legal and a flash address off the page boundary.
CallCopyRAMToFlash ==
  /\ Idle
  /\ \E flash_addr \in { chip.FlashRange[1], chip.FlashRange[1] + 32,
                         chip.FlashRange[2] - 63 },
        ram_addr \in { chip.RAMStartWrite, chip.RAMRange[2] - 63, chip.FlashRange[1] },
        num_bytes \in { 64, 256 } :
       \E reply \in CodeReplies(Line(Command3(67, flash_addr, ram_addr, num_bytes))) :
         Finish(CopyRAMToFlash(flash_addr, ram_addr, num_bytes,
                               rx \o ReplyBytes(reply), echo_on),
                [op |-> "CopyRAMToFlash", flash_address |-> flash_addr,
                 ram_address |-> ram_addr, num_bytes |-> num_bytes], reply)
  /\ pc' = "done"
  /\ UNCHANGED << chip, iodevice, data_buffer_in, echo_on >>

\* Replies of a return code 0 or 9 and up to n lines after it.
LineReplies(command_line, n) ==
  { Reply(e, c, p) : e \in { << >>, command_line },
                     c \in { Line(<< 48 >>), Line(<< 57 >>) },
                     p \in Payloads(n) }

\* ISPConnection.Go called on its own.
CallGo ==
  /\ Idle
  /\ \E address \in { 0, chip.RAMStartWrite }, thumb_mode \in BOOLEAN :
       \E command \in { << 71, 32 >> \o StrInt(address) \o << 32 >>
                          \o (IF thumb_mode THEN << 84 >> ELSE << >>) } :
         \E reply \in CodeReplies(Line(command)) :
           Finish(Go(PyInt(address), thumb_mode, rx \o ReplyBytes(reply), echo_on),
                  [op |-> "Go", address |-> address, thumb_mode |-> thumb_mode], reply)
  /\ pc' = "done"
  /\ UNCHANGED << chip, iodevice, data_buffer_in, echo_on >>

CallErasePages ==
  /\ Idle
  /\ \E start \in { 0, 1 }, end \in { 1 } :
       \E reply \in CodeReplies(Line(Command2(88, start, end))) :
         Finish(ErasePages(start, end, rx \o ReplyBytes(reply), echo_on),
                [op |-> "ErasePages", start |-> start, end |-> end], reply)
  /\ pc' = "done"
  /\ UNCHANGED << chip, iodevice, data_buffer_in, echo_on >>

CallReadWriteFAIM ==
  /\ Idle
  /\ \E reply \in CodeReplies(Line(<< 79 >>)) :
       Finish(ReadWriteFAIM(rx \o ReplyBytes(reply), echo_on),
              [op |-> "ReadWriteFAIM"], reply)
  /\ pc' = "done"
  /\ UNCHANGED << chip, iodevice, data_buffer_in, echo_on >>

CallReadUID ==
  /\ Idle
  /\ \E reply \in LineReplies(Line(<< 78 >>), MaxPayload + 1) :
       Finish(ReadUID(rx \o ReplyBytes(reply), echo_on), [op |-> "ReadUID"], reply)
  /\ pc' = "done"
  /\ UNCHANGED << chip, iodevice, data_buffer_in, echo_on >>

CallReadBootCodeVersion ==
  /\ Idle
  /\ \E reply \in LineReplies(Line(<< 75 >>), MaxPayload) :
       Finish(ReadBootCodeVersion(rx \o ReplyBytes(reply), echo_on),
              [op |-> "ReadBootCodeVersion"], reply)
  /\ pc' = "done"
  /\ UNCHANGED << chip, iodevice, data_buffer_in, echo_on >>

\* ISPConnection.ReadFlashSig with its default wait_states and mode, also
\* with a start that is not below the end.
CallReadFlashSig ==
  /\ Idle
  /\ \E start \in { 0, 1024 }, end \in { 1024 } :
       \E reply \in LineReplies(Line(SignatureCommand(start, end, 2, 0)),
                                MaxPayload + 1) :
         Finish(ReadFlashSig(start, end, 2, 0, rx \o ReplyBytes(reply), echo_on),
                [op |-> "ReadFlashSig", start |-> start, end |-> end], reply)
  /\ pc' = "done"
  /\ UNCHANGED << chip, iodevice, data_buffer_in, echo_on >>

\* What may come in answer to the crystal frequency.
CrystalLines == { Line(<< 79, 75 >>), Line(<< 52 >>), Line(<< 255 >>) }

RECURSIVE CrystalReplies(_)
CrystalReplies(n) ==
  IF n = 0 THEN { << >> }
  ELSE { p \o l : p \in CrystalReplies(n - 1), l \in CrystalLines \cup { << >> } }

CallSetCrystalFrequency ==
  /\ Idle
  /\ \E frequency_khz \in { 12000 } :
       \E reply \in { Reply(<< >>, << >>, p) : p \in CrystalReplies(MaxPayload) } :
         Finish(SetCrystalFrequency(frequency_khz, rx \o ReplyBytes(reply)),
                [op |-> "SetCrystalFrequency", frequency_khz |-> frequency_khz],
                reply)
  /\ pc' = "done"
  /\ UNCHANGED << chip, iodevice, data_buffer_in, echo_on >>

\* The objects handed to CheckFlashWrite as data.
WrittenData ==
  { [type |-> t, items |-> Rep(b, n)] :
      t \in { "bytes", "list", "bytearray" }, b \in { 0, 171 }, n \in { 4, 6 } }

CallCheckFlashWrite ==
  /\ Idle
  /\ \E data \in WrittenData, flash_address \in { 0 } :
       \E reply \in RawReplies(Line(Command2(82, flash_address, Len(data.items)))) :
         \E r \in { CheckFlashWrite(data, flash_address, rx \o ReplyBytes(reply),
                                  data_buffer_in, echo_on) } :
             /\ Finish(r, [op |-> "CheckFlashWrite", data |-> data,
                           flash_address |-> flash_address], reply)
             /\ data_buffer_in' = r.buf
  /\ pc' = "done"
  /\ UNCHANGED << chip, iodevice, echo_on >>

NextRC ==
  \/ CallSetEcho
  \/ CallWriteToRam
  \/ CallCopyRAMToFlash
  \/ CallWriteCommand
  \/ CallCheckSectorsBlank
  \/ CallMemoryLocationsEqual
  \/ CallReadMemory
  \/ CallGo
  \/ CallErasePages
  \/ CallReadWriteFAIM
  \/ CallReadUID
  \/ CallReadBootCodeVersion
  \/ CallReadFlashSig
  \/ CallSetCrystalFrequency
  \/ CallCheckFlashWrite

SpecRC == InitRC /\ [][NextRC]_vars

----------------------------------------------------------------------------
(* WriteImage against the boot ROM, one action per command sent.           *)

Init ==
  /\ pc = "WriteImage"
  /\ chip \in Parts
  /\ rx = << >>
  /\ tx = << >>
  /\ data_buffer_in = << >>
  /\ echo_on = FALSE
  /\ iodevice = UartDevice(kStartingBaudRate)
  /\ NoCall
  /\ imagein \in ImageIds
  /\ safe_write \in BOOLEAN
  /\ device \in { [flash |-> f, ram |-> RamAtReset, prepared |-> {}, unlocked |-> FALSE] :
                  f \in PriorFlash(chip) }
  /\ NoJob

\* What may happen to the next command.
Outcomes(more) ==
  {"ok"} \cup (IF faults < MaxFaults THEN {"busy", "silent"} \cup more ELSE {})

Fault(f) ==
  faults' = faults + (IF f = "ok" THEN 0 ELSE 1)

\* ram_address, flash_address of WriteFlashSector
ram_address == chip.RAMStartWrite

flash_addressOfFlash == chip.FlashRange[1]

flash_address == chip.FlashRange[1] + wfs.sector * sector_bytes

\* Where WriteImage goes on when WriteSector returns.
AfterSector == IF stage = "de" THEN "MakeBootable" ELSE "Loop"

\* An exception leaves WriteImage; otherwise control moves to `next`.
StepWhatever(exc, next, locals) ==
  /\ pc' = next
  /\ result' = result
  /\ wfs' = locals

Step(exc, next, locals) ==
  IF exc # "none"
    THEN /\ pc' = "done"
         /\ result' = exc
         /\ wfs' = IF locals.outcome = "running"
                     THEN [locals EXCEPT !.outcome = "raised", !.end = Len(tx')]
                     ELSE locals
    ELSE /\ pc' = next
         /\ result' = result
         /\ wfs' = locals

\* WriteFlashSector returns.
Return(locals, how) == [locals EXCEPT !.outcome = how, !.end = Len(tx')]

\* The entry of WriteFlashSector: data_crc = tools.calc_crc(data)
Enter(sector, data) ==
  /\ wsLog' = Append(wsLog, << sector, data >>)
  /\ wfs' = [NoSector EXCEPT !.sector = sector, !.data = data,
                             !.data_crc = CrcOf[data], !.start = Len(tx),
                             !.outcome = "running"]
  /\ pc' = "ReadCRCInitial"

\* WriteImage: isp.Unlock()
WI_Unlock ==
  /\ pc = "WriteImage"
  /\ \E f \in Outcomes({}) :
       \E dv \in { Device(chip, device, Command("U", 23130, 0, 0), f, wfs.data) } :
           \E r \in { Unlock(rx \o dv.reply, echo_on) } :
           /\ device' = dv.dev
           /\ Fault(f)
           /\ rx' = r.rx
           /\ tx' = tx \o r.tx
           /\ Step(r.exc, "WriteSector", wfs)
  /\ stage' = "de"
  /\ UNCHANGED << chip, iodevice, data_buffer_in, echo_on, callVars, imagein, safe_write,
                  todo, wsLog, wbf_return, flash0, wire >>

\* WriteImage: WriteSector(isp, chip, 0, bytes([0xDE] * chip.sector_bytes))
WI_WriteSector ==
  /\ pc = "WriteSector"
  /\ IF SectorBytesRaises(chip)
       THEN Step("UserWarning", "done", wfs) /\ UNCHANGED wsLog
       ELSE Enter(0, NotBootableData) /\ UNCHANGED result
  /\ UNCHANGED << chip, iodevice, sessionVars, callVars, imagein, safe_write, stage, todo,
                  wbf_return, device, faults, flash0, wire >>

\* What no step of WriteFlashSector assigns.
sectorFrame == << chip, iodevice, data_buffer_in, echo_on, callVars, imagein, safe_write,
                 stage, todo, wsLog, wbf_return, flash0, wire >>

\* ram_crc_initial = isp.ReadCRC(ram_address, num_bytes=len(data))
WFS_ReadCRCInitial ==
  /\ pc = "ReadCRCInitial"
  /\ \E f \in Outcomes({}) :
       \E dv \in { Device(chip, device, Command("S", ram_address, sector_bytes, 0), f, wfs.data) } :
           \E r \in { ReadCRC(ram_address, sector_bytes, dv.reply, echo_on) } :
           /\ device' = dv.dev
           /\ Fault(f)
           /\ rx' = r.rx
           /\ tx' = tx \o r.tx
           /\ Step(r.exc, "WriteToRam", wfs)
  /\ UNCHANGED sectorFrame

\* assert chip.RamRangeLegal(...); isp.WriteToRam(ram_address, data); isp.reset()
WFS_WriteToRam ==
  /\ pc = "WriteToRam"
  /\ IF ~RamRangeLegal(chip, ram_address, sector_bytes)
       THEN /\ UNCHANGED << device, faults, rx, tx >>
            /\ Step("AssertionError", "done", wfs)
       ELSE \E f \in Outcomes({"garbled", "lost"}) :
              \E dv \in { Device(chip, device, Command("W", ram_address, sector_bytes, 0), f, wfs.data) } :
                  \E r \in { WriteToRam(ram_address, sector_bytes, wfs.data, rx \o dv.reply, echo_on) } :
                  /\ device' = dv.dev
                  /\ Fault(f)
                  /\ rx' = IF r.exc = "none" THEN << >> ELSE r.rx
                  /\ tx' = tx \o r.tx
                  /\ Step(r.exc, "ReadCRCRam", wfs)
  /\ UNCHANGED sectorFrame

\* if data_crc == ram_crc: ... else: _log.error(...): the comparison decides
\* nothing but the log line.
RamCrcAccepted(data_crc, ram_crc) == TRUE

\* ram_crc = isp.ReadCRC(...); isp.reset(); the RAM CRC check
WFS_ReadCRCRam ==
  /\ pc = "ReadCRCRam"
  /\ \E f \in Outcomes({}) :
       \E dv \in { Device(chip, device, Command("S", ram_address, sector_bytes, 0), f, wfs.data) } :
           \E r \in { ReadCRC(ram_address, sector_bytes, dv.reply, echo_on) } :
           /\ device' = dv.dev
           /\ Fault(f)
           /\ rx' = IF r.exc = "none" THEN << >> ELSE r.rx
           /\ tx' = tx \o r.tx
           /\ Step(IF r.exc # "none" THEN r.exc
                   ELSE IF RamCrcAccepted(wfs.data_crc, r.val) THEN "none"
                   ELSE "AssertionError",
                   IF safe_write THEN "CompareBefore" ELSE "PrepErase",
                   IF r.exc = "none" THEN [wfs EXCEPT !.ram_crc = r.val] ELSE wfs)
  /\ UNCHANGED sectorFrame

\* if ram_equal: return
SkipWriteNever(ram_equal) == FALSE

SkipWrite(ram_equal) == ram_equal

\* if use_safe_write: ram_equal = isp.MemoryLocationsEqual(...); if ram_equal: return
WFS_CompareBefore ==
  /\ pc = "CompareBefore"
  /\ \E f \in Outcomes({}) :
       \E dv \in { Device(chip, device,
                        Command("M", flash_address, ram_address, sector_bytes), f, wfs.data) } :
           \E r \in { MemoryLocationsEqual(flash_address, ram_address, sector_bytes,
                                      rx \o dv.reply, echo_on) } :
           /\ device' = dv.dev
           /\ Fault(f)
           /\ rx' = r.rx
           /\ tx' = tx \o r.tx
           /\ IF r.exc = "none" /\ SkipWrite(r.val)
                THEN Step("none", AfterSector,
                          Return([wfs EXCEPT !.ram_equal = TRUE], "skipped"))
                ELSE Step(r.exc, "PrepErase", wfs)
  /\ UNCHANGED sectorFrame

\* isp.PrepSectorsForWrite(sector, sector)
WFS_PrepErase ==
  /\ pc = "PrepErase"
  /\ \E f \in Outcomes({}) :
       \E dv \in { Device(chip, device, Command("P", wfs.sector, wfs.sector, 0), f, wfs.data) } :
           \E r \in { PrepSectorsForWrite(wfs.sector, wfs.sector, rx \o dv.reply, echo_on) } :
           /\ device' = dv.dev
           /\ Fault(f)
           /\ rx' = r.rx
           /\ tx' = tx \o r.tx
           /\ Step(r.exc, "Erase", wfs)
  /\ UNCHANGED sectorFrame

\* The step that follows the erase and its blank check: the second
\* isp.PrepSectorsForWrite(sector, sector)
BeforeCopyNothing == "Copy"

BeforeCopy == "PrepCopy"

\* isp.EraseSector(sector, sector)
WFS_Erase ==
  /\ pc = "Erase"
  /\ \E f \in Outcomes({}) :
       \E dv \in { Device(chip, device, Command("E", wfs.sector, wfs.sector, 0), f, wfs.data) } :
           \E r \in { EraseSector(wfs.sector, wfs.sector, rx \o dv.reply, echo_on) } :
           /\ device' = dv.dev
           /\ Fault(f)
           /\ rx' = r.rx
           /\ tx' = tx \o r.tx
           /\ Step(r.exc, IF safe_write THEN "CheckBlank" ELSE BeforeCopy, wfs)
  /\ UNCHANGED sectorFrame

\* if use_safe_write: assert isp.CheckSectorsBlank(sector, sector)
WFS_CheckBlank ==
  /\ pc = "CheckBlank"
  /\ \E f \in Outcomes({}) :
       \E dv \in { Device(chip, device, Command("I", wfs.sector, wfs.sector, 0), f, wfs.data) } :
           \E r \in { CheckSectorsBlank(wfs.sector, wfs.sector, rx \o dv.reply, echo_on) } :
           /\ device' = dv.dev
           /\ Fault(f)
           /\ rx' = r.rx
           /\ tx' = tx \o r.tx
           /\ Step(IF r.exc # "none" THEN r.exc
                   ELSE IF r.val THEN "none" ELSE "AssertionError",
                   BeforeCopy, wfs)
  /\ UNCHANGED sectorFrame

\* isp.PrepSectorsForWrite(sector, sector), the second time
WFS_PrepCopy ==
  /\ pc = "PrepCopy"
  /\ \E f \in Outcomes({}) :
       \E dv \in { Device(chip, device, Command("P", wfs.sector, wfs.sector, 0), f, wfs.data) } :
           \E r \in { PrepSectorsForWrite(wfs.sector, wfs.sector, rx \o dv.reply, echo_on) } :
           /\ device' = dv.dev
           /\ Fault(f)
           /\ rx' = r.rx
           /\ tx' = tx \o r.tx
           /\ Step(r.exc, "Copy", wfs)
  /\ UNCHANGED sectorFrame

\* assert chip.RamRangeLegal(...); assert chip.FlashRangeLegal(...);
\* isp.CopyRAMToFlash(flash_address, ram_address, chip.sector_bytes)
WFS_Copy ==
  /\ pc = "Copy"
  /\ IF ~(RamRangeLegal(chip, ram_address, sector_bytes)
            /\ FlashRangeLegal(chip, flash_address, sector_bytes))
       THEN /\ UNCHANGED << device, faults, rx, tx >>
            /\ Step("AssertionError", "done", wfs)
       ELSE \E f \in Outcomes({}) :
              \E dv \in { Device(chip, device,
                               Command("C", flash_address, ram_address, sector_bytes),
                               f, wfs.data) } :
                  \E r \in { CopyRAMToFlash(flash_address, ram_address, sector_bytes,
                                       rx \o dv.reply, echo_on) } :
                  /\ device' = dv.dev
                  /\ Fault(f)
                  /\ rx' = r.rx
                  /\ tx' = tx \o r.tx
                  /\ Step(r.exc, "ReadCRCFlash", wfs)
  /\ UNCHANGED sectorFrame

\* assert flash_crc == data_crc
FlashCrcIgnored(flash_crc, data_crc) == TRUE

FlashCrcAccepted(flash_crc, data_crc) == flash_crc = data_crc

\* flash_crc = isp.ReadCRC(flash_address, num_bytes=len(data)); the assertion
WFS_ReadCRCFlash ==
  /\ pc = "ReadCRCFlash"
  /\ \E f \in Outcomes({}) :
       \E dv \in { Device(chip, device, Command("S", flash_address, sector_bytes, 0), f, wfs.data) } :
           \E r \in { ReadCRC(flash_address, sector_bytes, dv.reply, echo_on) } :
           \E locals \in { [wfs EXCEPT !.flash_crc = r.val] } :
           /\ device' = dv.dev
           /\ Fault(f)
           /\ rx' = r.rx
           /\ tx' = tx \o r.tx
           /\ IF r.exc # "none" THEN Step(r.exc, "done", wfs)
              ELSE IF ~FlashCrcAccepted(r.val, wfs.data_crc)
                THEN Step("AssertionError", "done", locals)
              ELSE IF safe_write THEN Step("none", "CompareAfter", locals)
              ELSE Step("none", AfterSector, Return(locals, "written"))
  /\ UNCHANGED sectorFrame

\* if use_safe_write: assert isp.MemoryLocationsEqual(...)
WFS_CompareAfter ==
  /\ pc = "CompareAfter"
  /\ \E f \in Outcomes({}) :
       \E dv \in { Device(chip, device,
                        Command("M", flash_address, ram_address, sector_bytes), f, wfs.data) } :
           \E r \in { MemoryLocationsEqual(flash_address, ram_address, sector_bytes,
                                      rx \o dv.reply, echo_on) } :
           /\ device' = dv.dev
           /\ Fault(f)
           /\ rx' = r.rx
           /\ tx' = tx \o r.tx
           /\ IF r.exc # "none" THEN Step(r.exc, "done", wfs)
              ELSE IF ~r.val THEN Step("AssertionError", "done", wfs)
              ELSE Step("none", AfterSector,
                        Return([wfs EXCEPT !.verified = TRUE], "written"))
  /\ UNCHANGED sectorFrame

\* image = MakeBootable(chip.kCheckSumLocation, imagein) and the entry of
\* WriteBinaryToFlash: `return 1` when the image needs more sectors than the
\* part has.
WI_MakeBootable ==
  /\ pc = "MakeBootable"
  /\ IF BootableImage[imagein].exc # "none"
       THEN /\ pc' = "done"
            /\ result' = BootableImage[imagein].exc
            /\ UNCHANGED << stage, wbf_return >>
     ELSE IF 0 + SectorsOf[imagein] > chip.SectorCount
       THEN /\ pc' = "done"
            /\ result' = "returned"
            /\ wbf_return' = "1"
            /\ UNCHANGED stage
     ELSE /\ pc' = "Unlock"
          /\ stage' = "image"
          /\ UNCHANGED << result, wbf_return >>
  /\ UNCHANGED << chip, iodevice, sessionVars, callVars, imagein, safe_write, todo, wfs,
                  wsLog, device, faults, flash0, wire >>

\* reversed(range(start_sector, start_sector + sector_count))
SectorOrderAscending(start_sector, sector_count) ==
  [i \in 1..sector_count |-> start_sector + i - 1]

SectorOrder(start_sector, sector_count) ==
  [i \in 1..sector_count |-> start_sector + sector_count - i]

\* WriteBinaryToFlash: isp.Unlock() and the start of the loop
WBF_Unlock ==
  /\ pc = "Unlock"
  /\ \E f \in Outcomes({}) :
       \E dv \in { Device(chip, device, Command("U", 23130, 0, 0), f, wfs.data) } :
           \E r \in { Unlock(rx \o dv.reply, echo_on) } :
           /\ device' = dv.dev
           /\ Fault(f)
           /\ rx' = r.rx
           /\ tx' = tx \o r.tx
           /\ Step(r.exc, "Loop", wfs)
  /\ todo' = SectorOrder(0, SectorsOf[imagein])
  /\ UNCHANGED << chip, iodevice, data_buffer_in, echo_on, callVars, imagein, safe_write,
                  stage, wsLog, wbf_return, flash0, wire >>

\* A loop that hands image[0:sector_bytes] to every WriteSector.
WBF_LoopFirstChunk ==
  /\ pc = "Loop"
  /\ IF todo = << >>
       THEN /\ IF FlashAddressLegal(chip, chip.FlashRange[1])
                    /\ FlashAddressLegal(chip, chip.FlashRange[2])
                 THEN result' = "returned" /\ wbf_return' = "0"
                 ELSE result' = "AssertionError" /\ UNCHANGED wbf_return
            /\ pc' = "done"
            /\ UNCHANGED << todo, wfs, wsLog >>
       ELSE /\ Enter(Head(todo), Block("image", imagein, 0))
            /\ todo' = Tail(todo)
            /\ UNCHANGED << result, wbf_return >>
  /\ UNCHANGED << chip, iodevice, sessionVars, callVars, imagein, safe_write, stage,
                  device, faults, flash0, wire >>

\* One turn of the loop of WriteBinaryToFlash: WriteSector on the next
\* data_chunk, or `return 0` after the last.
WBF_Loop ==
  /\ pc = "Loop"
  /\ IF todo = << >>
       THEN /\ IF FlashAddressLegal(chip, chip.FlashRange[1])
                    /\ FlashAddressLegal(chip, chip.FlashRange[2])
                 THEN result' = "returned" /\ wbf_return' = "0"
                 ELSE result' = "AssertionError" /\ UNCHANGED wbf_return
            /\ pc' = "done"
            /\ UNCHANGED << todo, wfs, wsLog >>
       ELSE /\ Enter(Head(todo), Block("image", imagein, Head(todo) - 0))
            /\ todo' = Tail(todo)
            /\ UNCHANGED << result, wbf_return >>
  /\ UNCHANGED << chip, iodevice, sessionVars, callVars, imagein, safe_write, stage,
                  device, faults, flash0, wire >>

Next ==
  \/ WI_Unlock
  \/ WI_WriteSector
  \/ WFS_ReadCRCInitial
  \/ WFS_WriteToRam
  \/ WFS_ReadCRCRam
  \/ WFS_CompareBefore
  \/ WFS_PrepErase
  \/ WFS_Erase
  \/ WFS_CheckBlank
  \/ WFS_PrepCopy
  \/ WFS_Copy
  \/ WFS_ReadCRCFlash
  \/ WFS_CompareAfter
  \/ WI_MakeBootable
  \/ WBF_Unlock
  \/ WBF_Loop

Spec == Init /\ [][Next]_vars

----------------------------------------------------------------------------
(* Claims about the write pipeline (all under Spec).                       *)

IsPrefix(a, b) == Len(a) <= Len(b) /\ a = SubSeq(b, 1, Len(a))

\* The flash is as it was before WriteImage.
FlashIsPrior == \A s \in DOMAIN flash0 : SameBytes(device.flash[s], flash0[s])

\* The flash holds every sector of the new image.
FlashIsNew ==
  /\ BootableImage[imagein].exc = "none"
  /\ SectorsOf[imagein] <= chip.SectorCount
  /\ \A s \in 0..(SectorsOf[imagein] - 1) :
       SameBytes(device.flash[s], Block("image", imagein, s))

\* Sector 0 holds the vector table of the new image.
NewVectorTable ==
  /\ BootableImage[imagein].exc = "none"
  /\ Take(BytesOf[device.flash[0]], 32) = Take(BootableImage[imagein].bytes, 32)

\* C1: whenever WriteImage stops, by a crash or by an error, the flash holds
\* the intact prior image or an image the boot ROM will not start (or, once
\* the last sector is copied, the whole new image); and sector 0 holds the new
\* vector table only when every higher sector of the new image is in flash.
C1_BrickingAvoidance ==
  /\ BootableOf[device.flash[0]] => (FlashIsPrior \/ FlashIsNew)
  /\ (NewVectorTable /\ SectorsOf[imagein] <= chip.SectorCount) =>
       \A s \in 1..(SectorsOf[imagein] - 1) :
         SameBytes(device.flash[s], Block("image", imagein, s))

\* The WriteSector calls of a whole WriteImage.
ExpectedWrites ==
  << << 0, NotBootableData >> >>
    \o [i \in 1..SectorsOf[imagein] |->
          << SectorsOf[imagein] - i, Block("image", imagein, SectorsOf[imagein] - i) >>]

\* C2: the WriteSector calls of WriteImage are, in order, the 0xDE write of
\* sector 0 and then the image sectors n-1, ..., 1, 0: at any moment the calls
\* made are a prefix of that list, and all of it once WriteBinaryToFlash
\* returned 0.
C2_SectorOrder ==
  /\ IsPrefix(wsLog, ExpectedWrites)
  /\ (result = "returned" /\ wbf_return = "0") => wsLog = ExpectedWrites

C2_Witness ==
  /\ result = "returned" /\ wbf_return = "0"
  /\ SectorsOf[imagein] = 3
  /\ wsLog = << << 0, NotBootableData >>, << 2, Block("image", imagein, 2) >>,
               << 1, Block("image", imagein, 1) >>, << 0, Block("image", imagein, 0) >> >>

\* The frames the running WriteFlashSector call has written.
SentByCall ==
  SubSeq(tx, wfs.start + 1, IF wfs.outcome = "running" THEN Len(tx) ELSE wfs.end)

CommandFrame(command_string) == Frame(command_string \o kNewLine)

\* W with its payload up to the final M, as the claim lists them.
FramesFromW ==
  << CommandFrame(Command2(87, ram_address, sector_bytes)),
     DataFrame(wfs.data),
     CommandFrame(Command2(83, ram_address, sector_bytes)),
     Frame(CompareCommand(flash_address, ram_address, sector_bytes)),
     CommandFrame(Command2(80, wfs.sector, wfs.sector)),
     CommandFrame(Command2(69, wfs.sector, wfs.sector)),
     CommandFrame(Command2(73, wfs.sector, wfs.sector)),
     CommandFrame(Command2(80, wfs.sector, wfs.sector)),
     CommandFrame(Command3(67, flash_address, ram_address, sector_bytes)),
     CommandFrame(Command2(83, flash_address, sector_bytes)),
     Frame(CompareCommand(flash_address, ram_address, sector_bytes)) >>

\* The same after the S that reads the CRC of the staging buffer first.
FramesFromS ==
  << CommandFrame(Command2(83, ram_address, sector_bytes)) >> \o FramesFromW

\* C3 as stated: a sector written with safe_write on, the flash differing
\* from the data, took exactly W, the payload, S, M, P, E, I, P, C, S, M.
C3_FirstCommandIsW ==
  (safe_write /\ wfs.outcome = "written") => SentByCall = FramesFromW

\* C3: with safe_write on the commands of one WriteFlashSector call are S on
\* the staging buffer, then W, the payload of sector_bytes bytes, S, M, P,
\* E, I, P, C, S on the flash sector, M: the call has sent a prefix of that
\* list at any moment, all of it when it wrote the sector, and the first
\* five frames when the first M found flash and RAM equal.
C3_CommandOrder ==
  (safe_write /\ wfs.outcome # "none") =>
    /\ IsPrefix(SentByCall, FramesFromS)
    /\ wfs.outcome = "written" => SentByCall = FramesFromS
    /\ wfs.outcome = "skipped" => SentByCall = SubSeq(FramesFromS, 1, 5)
    /\ Len(BytesOf[wfs.data]) = sector_bytes

C3_Witness ==
  /\ safe_write /\ wfs.outcome = "written" /\ ~wfs.ram_equal
  /\ Len(SentByCall) = 12

\* A CRC the device reported differs from the CRC of the data.
RamCrcMismatch == wfs.ram_crc # NoCrc /\ wfs.ram_crc # wfs.data_crc

FlashCrcMismatch == wfs.flash_crc # NoCrc /\ wfs.flash_crc # wfs.data_crc

\* C4: once a CRC read from the device differs from the CRC of the data,
\* WriteImage has ended with an error, and the flash is the prior image
\* still or will not boot: sector 0 was not rewritten with the new image.
C4_CrcMismatchFatal ==
  (RamCrcMismatch \/ FlashCrcMismatch) =>
    /\ pc = "done"
    /\ result \notin {"running", "returned"}
    /\ ~BootableOf[device.flash[0]] \/ FlashIsPrior

\* The running call has sent C.
CopyIssued ==
  \E i \in 1..Len(SentByCall) :
    SentByCall[i] = CommandFrame(Command3(67, flash_address, ram_address, sector_bytes))

\* C5: a WriteFlashSector call that sent C returns only with the flash CRC
\* equal to the CRC of the data and, under safe_write, the final M equal;
\* with a differing flash CRC it raises, and after it raised WriteImage is
\* over: no later sector is written.
C5_CopyVerified ==
  CopyIssued =>
    /\ wfs.outcome = "written" =>
         (wfs.flash_crc = wfs.data_crc /\ (safe_write => wfs.verified))
    /\ FlashCrcMismatch => wfs.outcome = "raised"
    /\ wfs.outcome = "raised" =>
         (pc = "done" /\ result \notin {"running", "returned"}
            /\ wsLog[Len(wsLog)] = << wfs.sector, wfs.data >>)

C5_Witness ==
  /\ CopyIssued
  /\ FlashCrcMismatch
  /\ wfs.outcome = "raised"
  /\ todo # << >>

----------------------------------------------------------------------------
(* Claims about single protocol calls (all under SpecRC).                  *)

\* The bytes of a code line as the str the host decodes.
IsDecimalLine(c) == Utf8Decode(c).ok /\ ParseInt(Utf8Decode(c).str).ok

DecimalValue(c) == ParseInt(Utf8Decode(c).str).val

\* The newline written when no status arrived.
Nudged == ret.tx # << >> /\ ret.tx[Len(ret.tx)] = Frame(kNewLine)

DiagLine == Line(<< 52 >>)

\* C6: get_return_code never raises: when nothing arrives before the read
\* timeout it writes one newline and returns NoStatusResponse, on an empty
\* line or a line that is no decimal integer it returns NoStatusResponse,
\* and otherwise it returns the decimal value of the line.
C6_GetReturnCodeNeverRaises ==
  call.op = "WriteCommand" =>
    /\ ret.exc = "none"
    /\ devOut.code = << >> => (ret.val = NoStatusResponse /\ Nudged)
    /\ (Finished(devOut.code) /\ ~IsDecimalLine(devOut.code)) => ret.val = NoStatusResponse
    /\ (Finished(devOut.code) /\ IsDecimalLine(devOut.code)) => ret.val = DecimalValue(devOut.code)

\* C7 as stated: with echo_on set, an echoed command line followed by a
\* return code yields that code and leaves nothing unread; with echo_on
\* clear nothing is discarded: only the first line of the reply is read.
C7_DiscardFollowsEchoFlag ==
  call.op = "WriteCommand" =>
    /\ (echo_on /\ devOut.echo # << >> /\ IsDecimalLine(devOut.code)
          /\ Finished(devOut.code) /\ devOut.payload = << >>)
         => (ret.exc = "none" /\ ret.val = DecimalValue(devOut.code) /\ rx = << >>)
    /\ ~echo_on =>
         rx = Drop(ReplyBytes(devOut),
                   Len(IF devOut.echo # << >> THEN devOut.echo ELSE devOut.code))

\* C7 amended: whatever echo_on is, a first line equal to the command just
\* sent is swallowed, and exactly one further line is read: an echoed
\* command followed by a return code yields that code and leaves nothing
\* unread, and what follows the code line stays unread.
C7_EchoLineSwallowedOnce ==
  call.op = "WriteCommand" =>
    /\ (devOut.echo # << >> /\ IsDecimalLine(devOut.code)
          /\ Finished(devOut.code) /\ devOut.payload = << >>)
         => (ret.exc = "none" /\ ret.val = DecimalValue(devOut.code) /\ rx = << >>)
    /\ rx = devOut.payload

C7_Witness ==
  /\ call.op = "WriteCommand"
  /\ ~echo_on
  /\ devOut.echo # << >>
  /\ devOut.code = Line(<< 57 >>)
  /\ devOut.payload # << >>
  /\ ret = [exc |-> "none", val |-> PyInt(9), tx |-> << Frame(Line(call.command)) >>]
  /\ rx = devOut.payload

\* C8: CheckSectorsBlank returns TRUE on CMD_SUCCESS and reads no further
\* line, returns FALSE without raising on SECTOR_NOT_BLANK after reading
\* exactly the two diagnostic lines, and raises on every other return code,
\* NoStatusResponse included.
C8_CheckSectorsBlank ==
  (call.op = "CheckSectorsBlank" /\ call.start <= call.end) =>
    /\ devOut.code = Line(<< 48 >>) =>
         (ret.exc = "none" /\ ret.val = TRUE /\ rx = devOut.payload)
    /\ devOut.code = Line(<< 56 >>) =>
         /\ ret.exc = "none" /\ ret.val = FALSE
         /\ Take(devOut.payload, 6) = DiagLine \o DiagLine => rx = Drop(devOut.payload, 6)
    /\ devOut.code \in { Line(<< 57 >>), Line(<< 49, 48 >>), Line(<< 50, 53, 53 >>), << >> } =>
         ret.exc = "UserWarning"

C8_Witness ==
  /\ call.op = "CheckSectorsBlank"
  /\ devOut.code = Line(<< 56 >>)
  /\ devOut.payload = DiagLine \o DiagLine \o DiagLine
  /\ ret.exc = "none" /\ ret.val = FALSE
  /\ rx = DiagLine

\* C9: MemoryLocationsEqual returns TRUE on CMD_SUCCESS and reads no further
\* line, returns FALSE without raising on COMPARE_ERROR after reading exactly
\* the one mismatch line, and raises on every other return code.
C9_MemoryLocationsEqual ==
  call.op = "MemoryLocationsEqual" =>
    /\ devOut.code = Line(<< 48 >>) =>
         (ret.exc = "none" /\ ret.val = TRUE /\ rx = devOut.payload)
    /\ devOut.code = Line(<< 49, 48 >>) =>
         /\ ret.exc = "none" /\ ret.val = FALSE
         /\ Take(devOut.payload, 3) = DiagLine => rx = Drop(devOut.payload, 3)
    /\ devOut.code \in { Line(<< 57 >>), Line(<< 56 >>), Line(<< 50, 53, 53 >>), << >> } =>
         ret.exc = "UserWarning"

C9_Witness ==
  /\ call.op = "MemoryLocationsEqual"
  /\ devOut.code = Line(<< 49, 48 >>)
  /\ devOut.payload = DiagLine \o DiagLine
  /\ ret.exc = "none" /\ ret.val = FALSE
  /\ rx = DiagLine

\* C10: ReadMemory over a range that is neither a legal flash range nor a
\* legal RAM range fails before anything is written to the channel.
C10_ReadMemoryPreflight ==
  ( /\ call.op = "ReadMemory"
    /\ ~FlashRangeLegal(chip, call.start, call.num_bytes)
    /\ ~RamRangeLegal(chip, call.start, call.num_bytes) ) =>
    (ret.exc \notin { "none", "NoReturn" } /\ ret.tx = << >>)

\* The call put its command on the wire.
CommandSent == ret.tx # << >>

\* C11: no W is sent unless the length of the data is a multiple of 4 and
\* (start, length) is a legal RAM range, and no C is sent unless the RAM
\* source range and the flash destination range are legal and the flash
\* address is a multiple of 64.
C11_RangePreconditions ==
  /\ (call.op = "WriteToRam" /\ CommandSent) =>
       /\ call.data_len % 4 = 0
       /\ RamRangeLegal(chip, call.start, call.data_len)
  /\ (call.op = "CopyRAMToFlash" /\ CommandSent) =>
       /\ RamRangeLegal(chip, call.ram_address, call.num_bytes)
       /\ FlashRangeLegal(chip, call.flash_address, call.num_bytes)
       /\ call.flash_address % 64 = 0

----------------------------------------------------------------------------
(* The checksum functions applied to images (SpecImage).                   *)

\* Most whole words that follow the vector table in a test image.
MaxTailWords == 1

\* Values of the vector words the test images vary: 0, 1, 0xFFFFFFFF,
\* 0x80000000, 0x10000200.
TestWords ==
  { Wide(0, 0), Wide(0, 1), Wide(65535, 65535), Wide(32768, 0), Wide(4096, 512) }

\* What stands in the checksum word before: 0, 1, 0xFFFFFFFF.
TestChecksums == { Wide(0, 0), Wide(0, 1), Wide(65535, 65535) }

\* An image of vector words w0, w1, 0, 0, 0, 0, 0, w7 and a tail.
ImageOf(w0, w1, w7, tail) ==
  PackU32(w0).bytes \o PackU32(w1).bytes \o Rep(0, 20) \o PackU32(w7).bytes \o tail

\* The images the functions are applied to: whole vector tables with tails
\* of whole words or one odd byte, and images too short for a vector table.
Images ==
  { ImageOf(w0, w1, w7, tail) :
      w0 \in TestWords, w1 \in TestWords, w7 \in TestChecksums,
      tail \in { Rep(7, 4 * n) : n \in 0..MaxTailWords } \cup { << 9 >> } }
    \cup { << >>, Rep(1, 28), Rep(1, 31) }

\* The result of one function call.
Applied(op, image, r) ==
  /\ call' = [op |-> op, image |-> image]
  /\ ret' = [exc |-> r.exc, val |-> r.bytes, tx |-> << >>]
  /\ pc' = "done"
  /\ UNCHANGED << chip, iodevice, sessionVars, devOut, jobVars >>

\* MakeBootable(chip.kCheckSumLocation, image)
CallMakeBootable ==
  /\ pc = "fresh"
  /\ \E image \in Images :
       Applied("MakeBootable", image, MakeBootable(kCheckSumLocation, image))

\* RemoveBootableCheckSum(chip.kCheckSumLocation, image)
CallRemoveBootableCheckSum ==
  /\ pc = "fresh"
  /\ \E image \in Images :
       Applied("RemoveBootableCheckSum", image,
               RemoveBootableCheckSum(kCheckSumLocation, image))

\* RemoveBootableCheckSum(loc, MakeBootable(loc, image))
CallRoundTrip ==
  /\ pc = "fresh"
  /\ \E image \in Images :
       \E made \in { MakeBootable(kCheckSumLocation, image) } :
         Applied("RoundTrip", image,
                 IF made.exc # "none" THEN made
                 ELSE RemoveBootableCheckSum(kCheckSumLocation, made.bytes))

NextImage ==
  \/ CallMakeBootable
  \/ CallRemoveBootableCheckSum
  \/ CallRoundTrip

SpecImage == InitRC /\ [][NextImage]_vars

\* The first eight words of the image but the checksum word.
OtherWords(image) ==
  [k \in 1..7 |-> WordAt(image, IF k - 1 < kCheckSumLocation THEN k - 1 ELSE k)]

\* (2^32 - (sum of the other seven words mod 2^32)) mod 2^32
ChecksumWord(image) ==
  LET Complement(sum) ==
        Wide((65536 - (sum.hi % 65536) - (IF sum.lo > 0 THEN 1 ELSE 0)) % 65536,
             (65536 - sum.lo) % 65536)
  IN  Complement(SumWords(OtherWords(image)))

\* The image with the four bytes of the checksum word replaced.
WithChecksumBytes(image, four) ==
  [i \in 1..Len(image) |->
     IF (i - 1) \in (4 * kCheckSumLocation)..(4 * kCheckSumLocation + 3)
       THEN four[i - 4 * kCheckSumLocation] ELSE image[i]]

\* C12: for every image with a vector table MakeBootable returns the image
\* with the checksum word (2^32 - (sum of the other seven words mod 2^32))
\* mod 2^32, whose first eight words sum to 0 mod 2^32, also when the other
\* seven words sum to 0 and the checksum word is 0.
C12_MakeBootableSumsToZero ==
  (call.op = "MakeBootable" /\ Len(call.image) >= 32) =>
    /\ ret.exc = "none"
    /\ Bootable(ret.val)
    /\ ret.val = WithChecksumBytes(call.image, PackU32(ChecksumWord(call.image)).bytes)

\* C13: for every image with a vector table, RemoveBootableCheckSum of
\* MakeBootable of the image is the image with the four bytes of vector word
\* 7 (offsets 28..31) zero, every other byte and the length unchanged.
C13_RoundTrip ==
  (call.op = "RoundTrip" /\ Len(call.image) >= 32) =>
    /\ ret.exc = "none"
    /\ Len(ret.val) = Len(call.image)
    /\ ret.val = WithChecksumBytes(call.image, << 0, 0, 0, 0 >>)

\* C14: for every image with a vector table RemoveBootableCheckSum(7, image)
\* yields an image, and the first eight little-endian words of that image do
\* not sum to 0 mod 2^32.
C14_AlwaysRefused ==
  (call.op = "RemoveBootableCheckSum" /\ Len(call.image) >= 32) =>
    (ret.exc = "none" /\ ~Bootable(ret.val))

----------------------------------------------------------------------------
(* The capacity check of WriteBinaryToFlash (under Spec).                  *)

\* WriteBinaryToFlash was called: it is running or has returned.
WbfCalled == stage = "image" \/ wbf_return # "none"

\* start_sector + sector_count > chip.SectorCount for the image of WriteImage
CapacityExceeded == 0 + SectorsOf[imagein] > chip.SectorCount

\* Nothing was written since the WriteSector call of WriteImage ended.
NothingSentByWbf == Len(tx) = wfs.end

\* C15: WriteBinaryToFlash on an image that needs more sectors than the part
\* has fails with an error and sends no command, not even unlock; on an
\* image that fits, the capacity check does not reject.
C15_CapacityExceededFails ==
  /\ (WbfCalled /\ CapacityExceeded) =>
       /\ pc = "done"
       /\ result \notin { "running", "returned" }
       /\ NothingSentByWbf
  /\ (WbfCalled /\ ~CapacityExceeded) => wbf_return # "1"

----------------------------------------------------------------------------
(* SyncConnection and SetupChip against a device that follows one of a few *)
(* scripts (SpecSync).                                                     *)

\* "Synchronized"
Synchronized == << 83, 121, 110, 99, 104, 114, 111, 110, 105, 122, 101, 100 >>

\* ISPConnection.SyncString = f"Synchronized{kNewLine}"
SyncString == Synchronized \o kNewLine

\* ISPConnection.SyncVerifiedString = f"OK{kNewLine}"
SyncVerifiedString == << 79, 75 >> \o kNewLine

\* The sync character "?"
sync_char == << 63 >>

\* f"B {baud_rate} {stop_bits}"
BaudCommand(baud_rate, stop_bits) == Command2(66, baud_rate, stop_bits)

\* The part id of scenario S1 (0x08041082) and one no part file lists.
KnownPartId == 134513218

UnknownPartId == 1

\* The scripts a device may follow:
\*   S1      answers exactly as scenario S1 lists, each listed line once;
\*   S1echo  as S1, but sends the sync string back before OK;
\*   rom     a boot ROM after reset: echoes what it is sent while echo is on;
\*   synced  a boot ROM already in command mode, echo on;
\*   badsync answers "?" with a line that is not the sync string;
\*   noOK    sends the sync string and echoes it but never sends OK;
\*   deaf    sends nothing;
\*   noise   answers "?" with a byte that is not UTF-8;
\*   nobaud  a boot ROM that answers every B with INVALID_BAUD_RATE (17).
\* acked holds the B lines the device answered with 0.
DeviceKinds ==
  { "S1", "S1echo", "rom", "synced", "badsync", "noOK", "deaf", "noise", "nobaud" }

\* A device at the start of a session.
DeviceAtStart(kind, part_id) ==
  [kind |-> kind, part_id |-> part_id,
   mode |-> IF kind = "synced" THEN "commands" ELSE "autobaud",
   echo |-> kind \in { "rom", "synced", "nobaud" },
   asked |-> {},
   acked |-> {}]

\* What a device sends when `sent` arrives, and what it is afterwards.
Bootloader(dev, sent) ==
  LET Says(reply, after) == [reply |-> reply, dev |-> after]
      Scripted == dev.kind \in { "S1", "S1echo" }
      Echo == IF dev.echo /\ ~Scripted THEN sent ELSE << >>
      Zero == Line(<< 48 >>)
      Once(reply, after) ==
        IF Scripted /\ sent \in dev.asked
          THEN Says(<< >>, dev)
          ELSE Says(reply, [after EXCEPT !.asked = dev.asked \cup { sent }])
  IN  IF dev.kind = "deaf" THEN Says(<< >>, dev)
      ELSE IF dev.mode = "autobaud" THEN
        IF sent # sync_char THEN Says(<< >>, dev)
        ELSE IF dev.kind = "badsync" THEN Says(Line(<< 78, 79 >>), dev)
        ELSE IF dev.kind = "noise" THEN Says(<< 255 >>, dev)
        ELSE Says(SyncString, [dev EXCEPT !.mode = "sync"])
      ELSE IF dev.mode = "sync" THEN
        IF sent # SyncString THEN Says(<< >>, dev)
        ELSE IF dev.kind = "noOK" THEN Says(SyncString, [dev EXCEPT !.mode = "commands"])
        ELSE Says((IF dev.kind = "S1echo" THEN sent ELSE Echo) \o SyncVerifiedString,
                  [dev EXCEPT !.mode = "commands"])
      ELSE IF dev.kind = "noOK" THEN Says(<< >>, dev)
      ELSE IF sent = sync_char THEN Says(sent, dev)
      ELSE IF sent = Line(EchoCommand(TRUE))
        THEN Once(sent \o Zero, [dev EXCEPT !.echo = TRUE])
      ELSE IF sent = Line(EchoCommand(FALSE))
        THEN Once(Echo \o Zero, [dev EXCEPT !.echo = FALSE])
      ELSE IF Len(sent) > 2 /\ sent[1] = 66
        THEN IF dev.kind = "nobaud" THEN Says(Echo \o Line(<< 49, 55 >>), dev)
             ELSE Once(Echo \o Zero, [dev EXCEPT !.acked = @ \cup { sent }])
      ELSE IF sent = Line(<< 74 >>)
        THEN Once(Echo \o Zero \o Line(StrInt(dev.part_id)), dev)
      ELSE Says(<< >>, dev)

\* The port before SetupChip opens it.
NoPort == [open |-> FALSE, baudrate |-> 0]

\* UartDevice.disconnect: uart.close()
disconnect(port) == [port EXCEPT !.open = FALSE]

\* The frames `frames` written one after another: what the device is
\* afterwards and the bytes it has sent.
RECURSIVE Exchange(_, _, _)
Exchange(dev, sent, frames) ==
  IF frames = << >> THEN [dev |-> dev, rx |-> sent]
  ELSE LET Next1(said) == Exchange(said.dev, sent \o said.reply, Tail(frames))
       IN  Next1(Bootloader(dev, Head(frames)))

\* iodevice.read(): one byte, or none when the timeout expires first.
ReadByte(bytes) ==
  [byte |-> Take(bytes, 1), rest |-> Drop(bytes, 1)]

\* A SyncConnection without the shortcut.
AlreadySynchronizedNever(byte_in) == FALSE

\* byte_in == sync_char, where byte_in = read().strip().decode("utf-8")
AlreadySynchronized(byte_in) == byte_in = sync_char

\* What SetupChip leaves unchanged.  In this specification devOut holds the
\* bytes the device sent in answer to "?", and ret.at the step that raised.
syncFrame == << chip, data_buffer_in, imagein, safe_write, stage, todo,
                wfs, wsLog, wbf_return, faults, flash0, wire >>

\* The exception exc leaves SetupChip's try block: a UserWarning through the
\* except clause, any other straight to the caller.
Raise(exc) ==
  /\ ret' = [ret EXCEPT !.exc = exc, !.at = pc]
  /\ pc' = IF exc = "UserWarning" THEN "except" ELSE "done"
  /\ result' = IF exc = "UserWarning" THEN result ELSE exc

\* SetupChip up to the call of SyncConnection: the port is opened at
\* kStartingBaudRate, or at baudrate when no_sync is set.
SetupOpen ==
  /\ pc = "SetupChip"
  /\ iodevice' = UartDevice(IF call.no_sync THEN call.baudrate ELSE kStartingBaudRate)
  /\ rx' = << >>
  /\ pc' = IF call.no_sync THEN "SetEcho" ELSE "SyncConnection"
  /\ UNCHANGED << tx, echo_on, call, ret, result, device, devOut, syncFrame >>

\* SyncConnection up to the first branch: reset, "?", one byte read.
SyncQuery ==
  /\ pc = "SyncConnection"
  /\ \E x \in { Exchange(device, << >>, << sync_char >>) } :
     \E got \in { ReadByte(x.rx) } :
     \E dec \in { Utf8Decode(got.byte) } :
       IF ~dec.ok THEN
         /\ Raise("UnicodeDecodeError")
         /\ tx' = tx \o << Frame(sync_char) >>
         /\ device' = x.dev
         /\ rx' = got.rest
       ELSE IF AlreadySynchronized(Strip(dec.str)) THEN
         /\ tx' = tx \o << Frame(sync_char), Frame(<< 10 >>) >>
         /\ device' = Bootloader(x.dev, << 10 >>).dev
         /\ rx' = << >>
         /\ pc' = "SetEcho"
         /\ UNCHANGED << ret, result >>
       ELSE
         /\ tx' = tx \o << Frame(sync_char) >>
         /\ device' = x.dev
         /\ rx' = got.rest
         /\ pc' = "SyncString"
         /\ UNCHANGED << ret, result >>
  /\ devOut' = Exchange(device, << >>, << sync_char >>).rx
  /\ UNCHANGED << iodevice, echo_on, call, syncFrame >>

\* frame_in of a _read_line inside try/except TimeoutError: the line, or the
\* contents of data_buffer_in, which reset has emptied.
FrameIn(resp) == IF resp.timeout THEN << >> ELSE resp.line

\* SyncConnection from the read of the sync string to the read after it
\* has been sent back.
SyncEchoString ==
  /\ pc = "SyncString"
  /\ \E resp \in { ReadLine(rx) } :
       IF ~Contains(Tail(Strip(SyncString)), FrameIn(resp)) THEN
         /\ Raise("UserWarning")
         /\ rx' = resp.rest
         /\ UNCHANGED << tx, device >>
       ELSE
         \E x \in { Exchange(device, resp.rest, << SyncString, kNewLine, kNewLine >>) } :
           /\ tx' = tx \o << Frame(SyncString), Frame(kNewLine), Frame(kNewLine) >>
           /\ device' = x.dev
           /\ rx' = ReadLine(x.rx).rest
           /\ pc' = "Verify"
           /\ UNCHANGED << ret, result >>
  /\ UNCHANGED << iodevice, echo_on, call, devOut, syncFrame >>

\* SyncConnection from the newline before the OK line to its end.
SyncVerify ==
  /\ pc = "Verify"
  /\ \E x \in { Exchange(device, rx, << kNewLine >>) } :
     \E resp \in { ReadLine(x.rx) } :
       IF ~Contains(Strip(SyncVerifiedString), FrameIn(resp)) THEN
         /\ Raise("UserWarning")
         /\ tx' = tx \o << Frame(kNewLine) >>
         /\ device' = x.dev
         /\ rx' = resp.rest
       ELSE
         \E n \in { Exchange(x.dev, resp.rest, << kNewLine >>) } :
         \E y \in { Exchange(n.dev, << >>, << Line(EchoCommand(TRUE)) >>) } :
           /\ tx' = tx \o << Frame(kNewLine), Frame(kNewLine),
                             Frame(Line(EchoCommand(TRUE))) >>
           /\ device' = y.dev
           /\ rx' = ReadTwoLines(y.rx)
           /\ pc' = "SetEcho"
           /\ UNCHANGED << ret, result >>
  /\ UNCHANGED << iodevice, echo_on, call, devOut, syncFrame >>

\* One _write_command of `command` to the device: its reply joins the unread
\* bytes, and the newline of the TimeoutError handler reaches the device too.
Converse(dev, unread, command, echo) ==
  LET Nudged1(said, r) ==
        [exc |-> r.exc, code |-> r.code, tx |-> r.tx,
         rx |-> r.rx \o (IF Len(r.tx) > 1 THEN Bootloader(said.dev, kNewLine).reply ELSE << >>),
         dev |-> IF Len(r.tx) > 1 THEN Bootloader(said.dev, kNewLine).dev ELSE said.dev]
      Answered(said) == Nudged1(said, WriteCommand(command, unread \o said.reply, echo))
  IN  Answered(Bootloader(dev, Line(command)))

\* Tries of SetBaudRate
BaudRateTries == 5

\* ISPConnection.SetBaudRate from try number n on: the command is sent again
\* until it returns 0, five times at most.
RECURSIVE SetBaudRateFrom(_, _, _, _, _, _)
SetBaudRateFrom(n, dev, unread, sent, baud_rate, echo) ==
  LET Tried(r) ==
        IF r.exc = "none" /\ ~IsZero(r.code) /\ n < BaudRateTries
          THEN SetBaudRateFrom(n + 1, r.dev, r.rx, sent \o r.tx, baud_rate, echo)
          ELSE [exc |-> IF r.exc # "none" THEN r.exc ELSE RaiseReturnCodeError(r.code),
                rx |-> r.rx, tx |-> sent \o r.tx, dev |-> r.dev]
  IN  Tried(Converse(dev, unread, BaudCommand(baud_rate, 1), echo))

SetBaudRate(dev, unread, baud_rate, echo) ==
  SetBaudRateFrom(1, dev, unread, << >>, baud_rate, echo)

\* ISPConnection.ReadPartID
ReadPartID(dev, unread, echo) ==
  LET Id(r, resp, p) ==
        [exc |-> IF resp.timeout THEN "TimeoutError"
                 ELSE IF ~p.ok THEN "ValueError" ELSE "none",
         val |-> p.val, rx |-> resp.rest, tx |-> r.tx, dev |-> r.dev]
      Line2(r, resp) == Id(r, resp, ParseInt(resp.line))
      Coded(r) ==
        IF r.exc # "none" \/ RaiseReturnCodeError(r.code) # "none"
          THEN [exc |-> IF r.exc # "none" THEN r.exc ELSE RaiseReturnCodeError(r.code),
                val |-> PyInt(0), rx |-> r.rx, tx |-> r.tx, dev |-> r.dev]
          ELSE Line2(r, ReadLine(r.rx))
  IN  Coded(Converse(dev, unread, << 74 >>, echo))

\* The part ids the chip file lists.
ChipFile == { PyInt(KnownPartId) }

\* An LPCPart object as parse_lpcparts_string builds it from a row of the
\* chip file: the declared fields, and the values of its properties RAMEnd,
\* FlashEnd, RAMStartWrite, RAMRange and FlashRange.  The row is that of a
\* part with `sectors` flash sectors of 1 KiB from address 0 and 4 KiB of RAM
\* at 0x10000000 whose staging buffer starts at offset 0x800.
LPCPart(part_id, sectors) ==
  LET Object(FlashStart, FlashSize, RAMStart, RAMSize, RAMBufferOffset) ==
        [part_id |-> part_id, name |-> "LPC845",
         FlashStart |-> FlashStart, FlashSize |-> FlashSize,
         SectorCount |-> sectors, ResetVectorOffset |-> 4,
         RAMStart |-> RAMStart, RAMSize |-> RAMSize,
         RAMBufferOffset |-> RAMBufferOffset, RAMBufferSize |-> 1024,
         UU_Encode |-> "UU_ENCODE",
         RAMEnd |-> RAMStart + RAMSize - 1,
         FlashEnd |-> FlashStart + FlashSize - 1,
         RAMStartWrite |-> RAMStart + RAMBufferOffset,
         RAMRange |-> << RAMStart, RAMStart + RAMSize - 1 >>,
         FlashRange |-> << FlashStart, FlashStart + FlashSize - 1 >>]
  IN  Object(0, sectors * 1024, 268435456, 4096, 2048)

\* The fields LPCPart declares.
LPCPartFields ==
  { "part_id", "name", "FlashStart", "FlashSize", "SectorCount",
    "ResetVectorOffset", "RAMStart", "RAMSize", "RAMBufferOffset",
    "RAMBufferSize", "UU_Encode" }

\* part.dict(): the declared fields under their names; a property is no field.
dict(part) == [field \in LPCPartFields |-> part[field]]

\* get_part_descriptor: ValueError when the chip file does not list the id,
\* else the dict of the part.
get_part_descriptor(part_id) ==
  IF part_id \in ChipFile
    THEN [exc |-> "none", val |-> dict(LPCPart(part_id, NumSectors))]
    ELSE [exc |-> "ValueError", val |-> dict(LPCPart(part_id, 1))]

\* The keys ChipDescription.__init__ pops from the descriptor.
ChipDescriptionKeys ==
  { "RAMRange", "FlashRange", "RAMBufferSize", "SectorCount", "RAMStartWrite" }

\* ChipDescription(descriptor): KeyError for a key the descriptor lacks,
\* AssertionError from the four assertions, else the chip.
ChipDescription(descriptor) ==
  IF ~(ChipDescriptionKeys \subseteq DOMAIN descriptor)
    THEN [exc |-> "KeyError", chip |-> Part(1)]
  ELSE IF ~(/\ descriptor.RAMRange[1] > 0
            /\ descriptor.RAMRange[2] > descriptor.RAMRange[1]
            /\ descriptor.FlashRange[2] > descriptor.FlashRange[1]
            /\ descriptor.SectorCount > 0)
    THEN [exc |-> "AssertionError", chip |-> Part(1)]
  ELSE [exc |-> "none",
        chip |-> [FlashRange    |-> descriptor.FlashRange,
                  RAMRange      |-> descriptor.RAMRange,
                  RAMBufferSize |-> descriptor.RAMBufferSize,
                  SectorCount   |-> descriptor.SectorCount,
                  RAMStartWrite |-> descriptor.RAMStartWrite]]

\* SetupChip: isp.SetEcho(False)
SetupSetEcho ==
  /\ pc = "SetEcho"
  /\ \E said \in { Bootloader(device, Line(EchoCommand(FALSE))) } :
     \E r \in { SetEcho(FALSE, rx \o said.reply, echo_on) } :
       /\ tx' = tx \o r.tx
       /\ rx' = r.rx
       /\ echo_on' = r.echo_on
       /\ device' = said.dev
       /\ IF r.exc = "none"
            THEN pc' = "SetBaudRate" /\ UNCHANGED << ret, result >>
            ELSE Raise(r.exc)
  /\ UNCHANGED << iodevice, call, devOut, syncFrame >>

\* SetupChip: isp.baud_rate = baudrate is reached when isp.SetBaudRate(baudrate)
\* returned.
BaudRateAnyway(exc, port, baudrate) == [port EXCEPT !.baudrate = baudrate]

BaudRateAfter(exc, port, baudrate) ==
  IF exc = "none" THEN [port EXCEPT !.baudrate = baudrate] ELSE port

\* SetupChip: isp.SetBaudRate(baudrate); isp.baud_rate = baudrate; isp.reset()
SetupSetBaudRate ==
  /\ pc = "SetBaudRate"
  /\ \E r \in { SetBaudRate(device, rx, call.baudrate, echo_on) } :
       /\ tx' = tx \o r.tx
       /\ device' = r.dev
       /\ iodevice' = BaudRateAfter(r.exc, iodevice, call.baudrate)
       /\ IF r.exc = "none"
            THEN /\ pc' = "ReadPartID"
                 /\ rx' = << >>
                 /\ UNCHANGED << ret, result >>
            ELSE /\ Raise(r.exc)
                 /\ rx' = r.rx
  /\ UNCHANGED << echo_on, call, devOut, syncFrame >>

\* What SetupChip leaves unchanged besides the chip.
setupFrame == << data_buffer_in, imagein, safe_write, stage, todo,
                 wfs, wsLog, wbf_return, faults, flash0, wire >>

\* SetupChip: the second isp.SetBaudRate(baudrate); isp.baud_rate = baudrate;
\* return isp, chip.  id is what ReadPartID came out with, cd the
\* ChipDescription made of the descriptor.
SetupNewBaudRate(id, cd) ==
  \E r \in { SetBaudRate(id.dev, id.rx, call.baudrate, echo_on) } :
    /\ tx' = tx \o id.tx \o r.tx
    /\ rx' = r.rx
    /\ device' = r.dev
    /\ iodevice' = BaudRateAfter(r.exc, iodevice, call.baudrate)
    /\ chip' = cd.chip
    /\ ret' = [exc |-> r.exc, val |-> id.val,
               at |-> IF r.exc = "none" THEN ret.at ELSE "NewBaudRate"]
    /\ pc' = IF r.exc = "UserWarning" THEN "except" ELSE "done"
    /\ result' = CASE r.exc = "none" -> "returned"
                   [] r.exc = "UserWarning" -> result
                   [] OTHER -> r.exc

\* SetupChip: part_id = isp.ReadPartID();
\* descriptor = get_part_descriptor(chip_file, part_id);
\* chip = ChipDescription(descriptor); and, with the chip made, the rest of
\* the function.
SetupReadPartID ==
  /\ pc = "ReadPartID"
  /\ \E r \in { ReadPartID(device, rx, echo_on) } :
     \E d \in { get_part_descriptor(r.val) } :
     \E cd \in { ChipDescription(d.val) } :
       IF r.exc = "none" /\ d.exc = "none" /\ cd.exc = "none"
         THEN SetupNewBaudRate(r, cd)
         ELSE /\ tx' = tx \o r.tx
              /\ rx' = r.rx
              /\ device' = r.dev
              /\ UNCHANGED << iodevice, chip >>
              /\ IF r.exc # "none" THEN Raise(r.exc)
                 ELSE /\ ret' = [ret EXCEPT !.exc = IF d.exc # "none" THEN d.exc ELSE cd.exc,
                                            !.val = r.val, !.at = pc]
                      /\ pc' = "done"
                      /\ result' = IF d.exc # "none" THEN d.exc ELSE cd.exc
  /\ UNCHANGED << echo_on, call, devOut, setupFrame >>

\* SetupChip: except UserWarning: iodevice.disconnect(); raise
SetupExcept ==
  /\ pc = "except"
  /\ iodevice' = disconnect(iodevice)
  /\ result' = "UserWarning"
  /\ pc' = "done"
  /\ UNCHANGED << rx, tx, echo_on, call, ret, device, devOut, syncFrame >>

\* The baud rates asked for.
BaudRates == { 9600, 115200 }

InitSync ==
  /\ pc = "SetupChip"
  /\ chip = Part(NumSectors)
  /\ rx = << >>
  /\ tx = << >>
  /\ data_buffer_in = << >>
  /\ echo_on = TRUE
  /\ iodevice = NoPort
  /\ \E baudrate \in BaudRates, no_sync \in BOOLEAN :
       call = [op |-> "SetupChip", baudrate |-> baudrate, no_sync |-> no_sync]
  /\ ret = [exc |-> "none", val |-> PyInt(0), at |-> "none"]
  /\ devOut = << >>
  /\ imagein = 1
  /\ safe_write = TRUE
  /\ \E kind \in DeviceKinds, part_id \in { KnownPartId, UnknownPartId } :
       device = DeviceAtStart(kind, part_id)
  /\ stage = "none"
  /\ todo = << >>
  /\ wfs = NoSector
  /\ wsLog = << >>
  /\ result = "running"
  /\ wbf_return = "none"
  /\ faults = 0
  /\ flash0 = << >>
  /\ wire = << >>

NextSync ==
  \/ SetupOpen
  \/ SyncQuery
  \/ SyncEchoString
  \/ SyncVerify
  \/ SetupSetEcho
  \/ SetupSetBaudRate
  \/ SetupReadPartID
  \/ SetupExcept

SpecSync == InitSync /\ [][NextSync]_vars

\* The frames written after the last "A 1" of the handshake.
RECURSIVE AfterHandshake(_)
AfterHandshake(frames) ==
  IF frames = << >> THEN << >>
  ELSE IF Frame(Line(EchoCommand(TRUE))) \in { frames[i] : i \in 2..Len(frames) }
    THEN AfterHandshake(Tail(frames))
  ELSE IF Head(frames) = Frame(Line(EchoCommand(TRUE))) THEN Tail(frames)
  ELSE frames

\* SetupChip(115200, no_sync = False) has ended against the device of
\* scenario S1 holding part id 134513218.
ScenarioS1Ended ==
  /\ pc = "done"
  /\ device.kind = "S1"
  /\ device.part_id = KnownPartId
  /\ ~call.no_sync
  /\ call.baudrate = 115200

\* C16: against the device of scenario S1 sync plus SetupChip succeeds: after
\* the handshake the host sends "A 0", "B 115200 1" and "J" once each in that
\* order, and SetupChip returns with the port at 115200 baud and part id
\* 134513218.
C16_ColdSyncS1 ==
  ScenarioS1Ended =>
    /\ result = "returned"
    /\ AfterHandshake(tx) = << Frame(Line(EchoCommand(FALSE))),
                               Frame(Line(BaudCommand(115200, 1))),
                               Frame(Line(<< 74 >>)) >>
    /\ iodevice = UartDevice(115200)
    /\ ret.val = PyInt(KnownPartId)

\* SyncConnection has read the answer to "?" and its first byte is "?".
FirstByteIsSyncChar ==
  /\ ~call.no_sync
  /\ pc \notin { "SetupChip", "SyncConnection" }
  /\ Take(devOut, 1) = sync_char

\* The frames of tx that carry `bytes`
FramesOf(bytes) == { i \in 1..Len(tx) : tx[i] = Frame(bytes) }

\* C17: when the first byte read after the single "?" is "?", SyncConnection
\* sends one newline, resets and returns without raising, and neither the
\* Synchronized string nor "A 1" is ever sent.
C17_AlreadyInteractive ==
  FirstByteIsSyncChar =>
    /\ Take(tx, 2) = << Frame(sync_char), Frame(<< 10 >>) >>
    /\ pc \notin { "SyncString", "Verify" }
    /\ pc = "SetEcho" => tx = << Frame(sync_char), Frame(<< 10 >>) >> /\ rx = << >>
    /\ ret.at \notin { "SyncConnection", "SyncString", "Verify" }
    /\ FramesOf(SyncString) = {}
    /\ FramesOf(Line(EchoCommand(TRUE))) = {}

C17_Witness ==
  /\ FirstByteIsSyncChar
  /\ pc = "SetEcho"
  /\ Len(tx) = 2


\* SetupChip has ended after SyncConnection failed: what came after "?" did
\* not hold the sync string (another line, nothing, or a byte that is no
\* UTF-8), or the OK line was missing.
SyncHandshakeFailed ==
  /\ pc = "done"
  /\ ~call.no_sync
  /\ ret.exc # "none"
  /\ ret.at \in { "SyncConnection", "SyncString", "Verify" }

\* C18: when the sync handshake fails inside SetupChip the failure reaches the
\* caller as the exception raised, the port has been closed by then, "?"
\* was sent once and nothing was sent after the failure.
C18_SyncFailureClosesPort ==
  SyncHandshakeFailed =>
    /\ result = ret.exc
    /\ ~iodevice.open
    /\ Cardinality(FramesOf(sync_char)) = 1
    /\ FramesOf(Line(EchoCommand(FALSE))) = {}
    /\ tx[Len(tx)] = IF ret.at = "Verify" THEN Frame(kNewLine) ELSE Frame(sync_char)


----------------------------------------------------------------------------
(* MassErase and ReadImage against the boot ROM (SpecFlash).  In this      *)
(* specification ret holds the locals of the running function: the number  *)
(* of MassErase commands that returned, the CheckSectorsBlank calls made,   *)
(* blank_sector (-1 before it is assigned) and the sectors read.            *)

\* What MassErase and ReadImage leave unchanged.
flashFrame == << chip, iodevice, echo_on, devOut, imagein, safe_write, stage, todo,
                 wfs, wsLog, result, wbf_return, flash0, wire >>

\* last_sector = chip.SectorCount - 1
last_sector == chip.SectorCount - 1

\* Where MassErase stands after a call that came out with exc: an exception
\* leaves the function.
MassEraseNextAnyway(exc, next) == next

MassEraseNext(exc, next) == IF exc = "none" THEN next ELSE "raised"

\* One call of MassErase or of the command after it.
MassEraseCall(f, dv, r, next) ==
  /\ device' = dv.dev
  /\ Fault(f)
  /\ rx' = r.rx
  /\ tx' = tx \o r.tx
  /\ ret' = [ret EXCEPT !.exc = r.exc, !.val = r.val,
                        !.returned = @ + (IF r.exc = "none" THEN 1 ELSE 0)]
  /\ pc' = MassEraseNext(r.exc, next)
  /\ UNCHANGED << call, flashFrame >>

\* MassErase: isp.reset(); isp.Unlock()
MassEraseUnlock ==
  /\ pc = "MassErase"
  /\ \E f \in Outcomes({}) :
     \E dv \in { Device(chip, device, Command("U", 23130, 0, 0), f, wfs.data) } :
     \E r \in { Unlock(dv.reply, echo_on) } :
       MassEraseCall(f, dv, r, "PrepSectorsForWrite")
  /\ data_buffer_in' = << >>

\* MassErase: isp.PrepSectorsForWrite(0, last_sector)
MassErasePrep ==
  /\ pc = "PrepSectorsForWrite"
  /\ \E f \in Outcomes({}) :
     \E dv \in { Device(chip, device, Command("P", 0, last_sector, 0), f, wfs.data) } :
     \E r \in { PrepSectorsForWrite(0, last_sector, rx \o dv.reply, echo_on) } :
       MassEraseCall(f, dv, r, "EraseSector")
  /\ UNCHANGED data_buffer_in

\* MassErase: isp.EraseSector(0, last_sector), and the return
MassEraseErase ==
  /\ pc = "EraseSector"
  /\ \E f \in Outcomes({}) :
     \E dv \in { Device(chip, device, Command("E", 0, last_sector, 0), f, wfs.data) } :
     \E r \in { EraseSector(0, last_sector, rx \o dv.reply, echo_on) } :
       MassEraseCall(f, dv, r, "erased")
  /\ UNCHANGED data_buffer_in

\* A command on the session after MassErase returned:
\* isp.CheckSectorsBlank(0, last_sector), which the device answers.
FollowingCommand ==
  /\ pc = "erased"
  /\ \E dv \in { Device(chip, device, Command("I", 0, last_sector, 0), "ok", wfs.data) } :
     \E r \in { CheckSectorsBlank(0, last_sector, rx \o dv.reply, echo_on) } :
       /\ device' = dv.dev
       /\ rx' = r.rx
       /\ tx' = tx \o r.tx
       /\ ret' = [ret EXCEPT !.exc = r.exc, !.val = r.val]
       /\ pc' = "followed"
       /\ UNCHANGED << faults, data_buffer_in, call, flashFrame >>

\* FindFirstBlankSector: what it returns when the loop ends without a blank
\* answer.
BlankSectorFallbackCount(c) == c.SectorCount

BlankSectorFallback(c) == c.SectorCount - 1

\* One pass of the loop of FindFirstBlankSector, or its end.
FindFirstBlankSector ==
  /\ pc = "FindFirstBlankSector"
  /\ IF Len(ret.queries) >= chip.SectorCount
       THEN /\ ret' = [ret EXCEPT !.blank_sector = BlankSectorFallback(chip)]
            /\ pc' = "ReadSector"
            /\ UNCHANGED << device, faults, rx, tx >>
       ELSE \E sector \in { Len(ret.queries) } :
            \E f \in Outcomes({}) :
            \E dv \in { Device(chip, device, Command("I", sector, last_sector, 0), f, wfs.data) } :
            \E r \in { CheckSectorsBlank(sector, last_sector, rx \o dv.reply, echo_on) } :
              /\ device' = dv.dev
              /\ Fault(f)
              /\ rx' = r.rx
              /\ tx' = tx \o r.tx
              /\ IF r.exc # "none"
                   THEN /\ ret' = [ret EXCEPT !.exc = r.exc]
                        /\ pc' = "raised"
                   ELSE /\ ret' = [ret EXCEPT
                                     !.queries = Append(@, [start |-> sector,
                                                            end |-> last_sector,
                                                            blank |-> r.val]),
                                     !.blank_sector = IF r.val THEN sector ELSE @]
                        /\ pc' = IF r.val THEN "ReadSector" ELSE "FindFirstBlankSector"
  /\ UNCHANGED << data_buffer_in, call, flashFrame >>

\* One pass of the loop of ReadImage over range(blank_sector):
\* ReadSector(isp, chip, nsector), which raises UserWarning at
\* chip.sector_bytes when a sector exceeds RAMBufferSize; or its end:
\* return image.join(sectors)
ReadImageSector ==
  /\ pc = "ReadSector"
  /\ IF Len(ret.sectors) >= ret.blank_sector
       THEN /\ ret' = [ret EXCEPT !.val = Flatten(ret.sectors)]
            /\ pc' = "returned"
            /\ UNCHANGED << device, faults, rx, tx, data_buffer_in >>
       ELSE \E start \in { Len(ret.sectors) * sector_bytes } :
            IF SectorBytesRaises(chip)
              THEN /\ ret' = [ret EXCEPT !.exc = "UserWarning"]
                   /\ pc' = "raised"
                   /\ UNCHANGED << device, faults, rx, tx, data_buffer_in >>
            ELSE IF ~FlashRangeLegal(chip, start, sector_bytes)
              THEN /\ ret' = [ret EXCEPT !.exc = "AssertionError"]
                   /\ pc' = "raised"
                   /\ UNCHANGED << device, faults, rx, tx, data_buffer_in >>
              ELSE \E f \in Outcomes({}) :
                   \E dv \in { Device(chip, device, Command("R", start, sector_bytes, 0),
                                      f, wfs.data) } :
                   \E r \in { ReadMemory(start, sector_bytes, rx \o dv.reply,
                                         data_buffer_in, echo_on) } :
                     /\ device' = dv.dev
                     /\ Fault(f)
                     /\ rx' = r.rx
                     /\ tx' = tx \o r.tx
                     /\ data_buffer_in' = r.buf
                     /\ IF r.exc # "none"
                          THEN /\ ret' = [ret EXCEPT !.exc = r.exc]
                               /\ pc' = "raised"
                          ELSE /\ ret' = [ret EXCEPT !.sectors = Append(@, r.val)]
                               /\ pc' = "ReadSector"
  /\ UNCHANGED << call, flashFrame >>

\* The flash of a part in use: each sector blank or written.
UsedFlash(c) == [0..(c.SectorCount - 1) -> { Erased, NotBootableData }]

\* Bytes left unread by earlier traffic when MassErase is called: none, or
\* a late return code.
StaleInput(op) == IF op = "MassErase" THEN { << >>, CodeLine(11) } ELSE { << >> }

\* A part whose staging buffer is smaller than a sector.
SmallBufferPart == [Part(2) EXCEPT !.RAMBufferSize = 512]

InitFlash ==
  /\ call \in { [op |-> "MassErase"], [op |-> "ReadImage"] }
  /\ pc = IF call.op = "MassErase" THEN "MassErase" ELSE "FindFirstBlankSector"
  /\ chip \in Parts \cup { SmallBufferPart }
  /\ rx \in StaleInput(call.op)
  /\ tx = << >>
  /\ data_buffer_in = << >>
  /\ echo_on = FALSE
  /\ iodevice = UartDevice(kStartingBaudRate)
  /\ ret = [exc |-> "none", val |-> FALSE, returned |-> 0, queries |-> << >>,
            blank_sector |-> -1, sectors |-> << >>]
  /\ devOut = Reply(<< >>, << >>, << >>)
  /\ imagein = 1
  /\ safe_write = TRUE
  /\ device \in { [flash |-> f, ram |-> RamAtReset, prepared |-> {}, unlocked |-> FALSE] :
                  f \in UsedFlash(chip) }
  /\ stage = "none"
  /\ todo = << >>
  /\ wfs = NoSector
  /\ wsLog = << >>
  /\ result = "running"
  /\ wbf_return = "none"
  /\ faults = 0
  /\ flash0 = device.flash
  /\ wire = << >>

NextFlash ==
  \/ MassEraseUnlock
  \/ MassErasePrep
  \/ MassEraseErase
  \/ FollowingCommand
  \/ FindFirstBlankSector
  \/ ReadImageSector

SpecFlash == InitFlash /\ [][NextFlash]_vars

\* The command lines of MassErase, in the order of its body.
MassEraseCommands ==
  << Frame(Line(<< 85, 32 >> \o StrInt(23130))),
     Frame(Line(Command2(80, 0, last_sector))),
     Frame(Line(Command2(69, 0, last_sector))) >>

\* C19: MassErase sends U 23130, P 0 last, E 0 last in that order after the
\* reset; each command is sent only after every one before it returned
\* CMD_SUCCESS; when all three did (as they do when the device answers each
\* command, whatever was unread before), no exception is raised, the input
\* is empty, and a following CheckSectorsBlank(0, last) is read correctly.
C19_MassEraseOrder ==
  call.op = "MassErase" =>
    /\ Take(tx, 3) = Take(MassEraseCommands, Len(tx))
    /\ pc # "followed" => Len(tx) <= ret.returned + 1
    /\ ret.returned = 3 =>
         /\ pc \in { "erased", "followed" }
         /\ rx = << >>
         /\ \A s \in DOMAIN device.flash : device.flash[s] = Erased
    /\ faults = 0 => pc # "raised"
    /\ pc = "erased" => ret.exc = "none" /\ tx = MassEraseCommands
    /\ pc = "followed" =>
         /\ ret.exc = "none"
         /\ ret.val = TRUE
         /\ tx = Append(MassEraseCommands, Frame(Line(Command2(73, 0, last_sector))))

C19_Witness ==
  /\ call.op = "MassErase"
  /\ pc = "followed"
  /\ chip.SectorCount > 1
  /\ \E s \in DOMAIN flash0 : flash0[s] # Erased
  /\ ret.val = TRUE

\* The first sector from which the flash is blank to its end, if any.
BlankFrom(flash, s) == \A t \in DOMAIN flash : t >= s => flash[t] = Erased

\* C20: FindFirstBlankSector asks CheckSectorsBlank(s, last) for s = 0, 1, ...
\* in ascending order and returns the first s answered true, or SectorCount-1
\* when none is; ReadImage returns ReadSector(0) .. ReadSector(b-1) joined, of
\* length b * sector_bytes.
C20_FindBlankAndReadImage ==
  call.op = "ReadImage" =>
    /\ \A i \in 1..Len(ret.queries) :
         /\ ret.queries[i].start = i - 1
         /\ ret.queries[i].end = last_sector
         /\ tx[i] = Frame(Line(Command2(73, i - 1, last_sector)))
         /\ ret.queries[i].blank = BlankFrom(device.flash, i - 1)
         /\ i < Len(ret.queries) => ~ret.queries[i].blank
    /\ Len(ret.queries) <= chip.SectorCount
    /\ ret.blank_sector # -1 =>
         \/ /\ ret.queries[Len(ret.queries)].blank
            /\ ret.blank_sector = Len(ret.queries) - 1
         \/ /\ Len(ret.queries) = chip.SectorCount
            /\ \A i \in 1..Len(ret.queries) : ~ret.queries[i].blank
            /\ ret.blank_sector = chip.SectorCount - 1
    /\ \A i \in 1..Len(ret.sectors) :
         /\ ret.sectors[i] = BytesOf[device.flash[i - 1]]
         /\ tx[Len(ret.queries) + i] =
              Frame(Line(Command2(82, (i - 1) * sector_bytes, sector_bytes)))
    /\ pc = "returned" =>
         /\ Len(ret.sectors) = ret.blank_sector
         /\ ret.val = Flatten(ret.sectors)
         /\ Len(ret.val) = ret.blank_sector * sector_bytes
         /\ Len(tx) = Len(ret.queries) + ret.blank_sector

C20_Witness ==
  /\ call.op = "ReadImage"
  /\ pc = "returned"
  /\ Len(ret.queries) = 3
  /\ ret.queries[3].blank
  /\ Len(ret.val) = 2 * sector_bytes

----------------------------------------------------------------------------
(* tools.retry: the wrapper around a function that may raise (SpecRetry).  *)
(* In this specification call holds the arguments of retry and ret the     *)
(* wrapper's outcome: the exception, who raised it, the value returned and *)
(* how each invocation of func ended.                                      *)

\* Largest count tried.
MaxCount == 3

\* The exception kinds func may raise.
ExceptionKinds == { "TimeoutError", "UserWarning" }

\* The ways one invocation of func may end.
Invocations ==
  { [exc |-> "none", val |-> v] : v \in { "response", "None" } }
    \cup { [exc |-> k, val |-> "None"] : k \in ExceptionKinds }

\* except exception as e
Caught(kind, exception) == kind \in exception

\* A handler that compares the pass number with count one too late.
AfterCaughtLate(i, count, raise_on_fail) ==
  IF i > count /\ raise_on_fail THEN "raise"
  ELSE IF i >= count THEN "return" ELSE "again"

\* The handler of the i-th invocation: raise UserWarning when
\* i >= count and raise_on_fail; else the loop goes on, or ends after the
\* last pass and value is returned.
AfterCaught(i, count, raise_on_fail) ==
  IF i >= count /\ raise_on_fail THEN "raise"
  ELSE IF i >= count THEN "return" ELSE "again"

\* The session state a call that never touches the line leaves alone.
QuietSession ==
  /\ chip = Part(NumSectors)
  /\ rx = << >>
  /\ tx = << >>
  /\ data_buffer_in = << >>
  /\ echo_on = TRUE
  /\ iodevice = UartDevice(kStartingBaudRate)
  /\ devOut = Reply(<< >>, << >>, << >>)
  /\ imagein = 1
  /\ safe_write = TRUE
  /\ device = [flash |-> [s \in 0..(chip.SectorCount - 1) |-> Erased],
               ram |-> RamAtReset, prepared |-> {}, unlocked |-> FALSE]
  /\ NoJob

\* What retry leaves unchanged.
retryFrame == << chip, iodevice, sessionVars, devOut, jobVars >>

\* range(1, count+1) is empty: return value
RetryNoPass ==
  /\ pc = "retry"
  /\ call.count = 0
  /\ pc' = "done"
  /\ UNCHANGED << ret, call, retryFrame >>

\* One pass of the loop: func is invoked and returns or raises.
RetryPass ==
  /\ pc = "retry"
  /\ call.count > 0
  /\ \E o \in Invocations :
     \E after \in { AfterCaught(Len(ret.log) + 1, call.count, call.raise_on_fail) } :
       /\ ret' = [exc |-> IF o.exc = "none" THEN "none"
                          ELSE IF ~Caught(o.exc, call.exception) THEN o.exc
                          ELSE IF after = "raise" THEN "UserWarning"
                          ELSE "none",
                  by  |-> IF o.exc = "none" THEN "none"
                          ELSE IF ~Caught(o.exc, call.exception) THEN "func"
                          ELSE IF after = "raise" THEN "retry"
                          ELSE "none",
                  val |-> IF o.exc = "none" THEN o.val ELSE "None",
                  log |-> Append(ret.log, o)]
       /\ pc' = IF o.exc = "none" \/ ~Caught(o.exc, call.exception) \/ after # "again"
                  THEN "done" ELSE "retry"
  /\ UNCHANGED << call, retryFrame >>

InitRetry ==
  /\ pc = "retry"
  /\ \E count \in 0..MaxCount, exception \in SUBSET ExceptionKinds,
        raise_on_fail \in BOOLEAN :
       call = [op |-> "retry", count |-> count, exception |-> exception,
               raise_on_fail |-> raise_on_fail]
  /\ ret = [exc |-> "none", by |-> "none", val |-> "None", log |-> << >>]
  /\ QuietSession

NextRetry ==
  \/ RetryNoPass
  \/ RetryPass

SpecRetry == InitRetry /\ [][NextRetry]_vars

\* The i-th invocation of func raised a kind retry catches.
CaughtFailure(i) ==
  ret.log[i].exc # "none" /\ Caught(ret.log[i].exc, call.exception)

\* C21: retry invokes func at most count times and stops at the first
\* invocation that returns, yielding its value; an exception of a kind not
\* caught propagates at once; after the count-th caught failure it raises
\* UserWarning when raise_on_fail is set and returns None when it is not.
C21_Retry ==
  call.op = "retry" =>
    /\ Len(ret.log) <= call.count
    /\ \A i \in 1..(Len(ret.log) - 1) : CaughtFailure(i)
    /\ pc = "retry" => \A i \in 1..Len(ret.log) : CaughtFailure(i)
    /\ (pc = "done" /\ ret.log # << >>) =>
         LET last == ret.log[Len(ret.log)]
         IN  /\ last.exc = "none" =>
                  ret.exc = "none" /\ ret.val = last.val
             /\ (last.exc # "none" /\ ~Caught(last.exc, call.exception)) =>
                  ret.exc = last.exc /\ ret.by = "func"
             /\ (last.exc # "none" /\ Caught(last.exc, call.exception)) =>
                  /\ Len(ret.log) = call.count
                  /\ call.raise_on_fail => ret.exc = "UserWarning" /\ ret.by = "retry"
                  /\ ~call.raise_on_fail => ret.exc = "none" /\ ret.val = "None"

C21_Witness ==
  /\ call.op = "retry"
  /\ pc = "done"
  /\ call.count = 3
  /\ Len(ret.log) = 3
  /\ CaughtFailure(3)
  /\ ret.by = "retry"

\* PrepSectorsForWrite(0, last_sector) of MassErase has raised after a P
\* command the device did not answer.
PrepUnanswered ==
  /\ call.op = "MassErase"
  /\ pc = "raised"
  /\ ret.returned = 1
  /\ ret.val = NoStatusResponse

\* The number of frames of tx equal to `frame`
TimesSent(frame) == Cardinality({ i \in 1..Len(tx) : tx[i] = frame })

\* C22: a P command the device gives no status response to is sent again, up
\* to 5 attempts in all, so PrepSectorsForWrite does not fail before the
\* fifth P.
C22_PrepRetried ==
  PrepUnanswered => TimesSent(Frame(Line(Command2(80, 0, last_sector)))) = 5

\* C23: ReadMemory always ends, by returning or by raising: when the device
\* answers R with CMD_SUCCESS and then delivers fewer than num_bytes bytes,
\* the call fails instead of polling without end.
C23_ReadMemoryTerminates ==
  (call.op = "ReadMemory" /\ pc = "done") => ret.exc # "NoReturn"

----------------------------------------------------------------------------
(* _read_line and reset while bytes arrive (SpecFramer).  In this          *)
(* specification ret holds the bytes received since the last reset, the    *)
(* reads made since then and the number of bytes that ever arrived.        *)

\* Bytes that arrive in one run.
MaxArrived == 4

\* What arrives: "O", CR, LF, and a byte that is no UTF-8.
ArrivingBytes == { 79, 13, 10, 255 }

\* What the reads leave unchanged.
framerFrame == << chip, iodevice, tx, echo_on, devOut, call, jobVars >>

\* One more byte reaches the port.
Arrive ==
  /\ pc = "framer"
  /\ ret.arrived < MaxArrived
  /\ \E b \in ArrivingBytes :
       /\ rx' = Append(rx, b)
       /\ ret' = [ret EXCEPT !.received = Append(@, b), !.arrived = @ + 1]
  /\ UNCHANGED << pc, data_buffer_in, framerFrame >>

\* ISPConnection._read_line: iodevice.ReadLine()
FramerReadLine ==
  /\ pc = "framer"
  /\ Len(ret.reads) < MaxArrived
  /\ \E resp \in { ReadLine(rx) } :
       /\ rx' = resp.rest
       /\ ret' = [ret EXCEPT !.reads = Append(@, [timeout |-> resp.timeout,
                                                  line |-> resp.line])]
  /\ UNCHANGED << pc, data_buffer_in, framerFrame >>

\* ISPConnection.reset: _clear_serial reads what is there and clears it.
FramerReset ==
  /\ pc = "framer"
  /\ ret.received # << >>
  /\ rx' = << >>
  /\ data_buffer_in' = << >>
  /\ ret' = [ret EXCEPT !.received = << >>, !.reads = << >>]
  /\ UNCHANGED << pc, framerFrame >>

InitFramer ==
  /\ pc = "framer"
  /\ call = [op |-> "_read_line"]
  /\ ret = [received |-> << >>, reads |-> << >>, arrived |-> 0]
  /\ QuietSession

NextFramer ==
  \/ Arrive
  \/ FramerReadLine
  \/ FramerReset

SpecFramer == InitFramer /\ [][NextFramer]_vars

\* The lines the reads since the last reset returned, joined.
RECURSIVE LinesReturned(_)
LinesReturned(reads) ==
  IF reads = << >> THEN << >>
  ELSE (IF Head(reads).timeout THEN << >> ELSE Head(reads).line)
         \o LinesReturned(Tail(reads))

\* C24: the lines _read_line returned, followed by the bytes still waiting,
\* are the bytes received since the last reset; and a line is returned only
\* complete, so that what arrived before a timeout is part of the line a
\* later _read_line returns.
C24_FramerContract ==
  call.op = "_read_line" =>
    /\ LinesReturned(ret.reads) \o data_buffer_in \o rx = ret.received
    /\ \A i \in 1..Len(ret.reads) :
         \/ ret.reads[i].timeout
         \/ ret.reads[i].line = << >>
         \/ ret.reads[i].line[Len(ret.reads[i].line)] = 10

----------------------------------------------------------------------------
(* Commands the device refuses, one after another on one session.          *)

\* The commands issued on one session
MaxCalls == 3

\* The call_name each method hands to _raise_return_code_error.
CallName(op) ==
  CASE op = "Unlock" -> "Unlock"
    [] op = "PrepSectorsForWrite" -> "Prep Sectors"
    [] op = "EraseSector" -> "Erase Sectors"
    [] op = "CopyRAMToFlash" -> "Copy RAM To Flash"

\* _raise_return_code_error(code, call_name): the call the message of the
\* UserWarning names, "" when nothing is raised.
ReturnCodeFailureIn(code, call_name) ==
  IF ReturnCodeSuccess(code) THEN "" ELSE call_name

\* The boot ROM echoes the command line while echo is on, then answers.
Echoing(echo, command_string, reply) ==
  IF echo /\ reply # << >> THEN Line(command_string) \o reply ELSE reply

\* What a command on the session leaves unchanged.
sessionFrame ==
  << pc, chip, iodevice, data_buffer_in, echo_on, imagein, safe_write, stage,
     todo, wfs, wsLog, result, wbf_return, flash0, wire >>

\* One command of the session: the device's answer to it is devOut.code, the
\* method's outcome is ret; after_refusal tells that the device refused the
\* command before it.
SessionCall(op, f, dv, command_string, r) ==
  /\ pc = "session"
  /\ ret.calls < MaxCalls
  /\ device' = dv.dev
  /\ Fault(f)
  /\ rx' = r.rx
  /\ tx' = tx \o r.tx
  /\ devOut' = Reply(IF echo_on /\ dv.reply # << >> THEN Line(command_string) ELSE << >>,
                     dv.reply, << >>)
  /\ call' = op
  /\ ret' = [exc |-> r.exc, val |-> r.val,
             name |-> IF r.exc = "UserWarning"
                        THEN ReturnCodeFailureIn(r.val, CallName(op.op)) ELSE "",
             calls |-> ret.calls + 1,
             after_refusal |-> devOut.code \notin { << >>, CodeLine(0) }]
  /\ UNCHANGED sessionFrame

\* isp.Unlock()
SessionUnlock ==
  \E f \in Outcomes({}) :
  \E dv \in { Device(chip, device, Command("U", 23130, 0, 0), f, device.ram) } :
  \E r \in { Unlock(rx \o Echoing(echo_on, UnlockCommand, dv.reply), echo_on) } :
    SessionCall([op |-> "Unlock"], f, dv, UnlockCommand, r)

\* isp.PrepSectorsForWrite(start, end)
SessionPrep ==
  \E start \in {0} : \E end \in {0, last_sector} :
  \E f \in Outcomes({}) :
  \E dv \in { Device(chip, device, Command("P", start, end, 0), f, device.ram) } :
  \E r \in { PrepSectorsForWrite(start, end,
               rx \o Echoing(echo_on, Command2(80, start, end), dv.reply), echo_on) } :
    SessionCall([op |-> "PrepSectorsForWrite", start |-> start, end |-> end],
                f, dv, Command2(80, start, end), r)

\* isp.EraseSector(start, end)
SessionErase ==
  \E start \in {0} : \E end \in {last_sector} :
  \E f \in Outcomes({}) :
  \E dv \in { Device(chip, device, Command("E", start, end, 0), f, device.ram) } :
  \E r \in { EraseSector(start, end,
               rx \o Echoing(echo_on, Command2(69, start, end), dv.reply), echo_on) } :
    SessionCall([op |-> "EraseSector", start |-> start, end |-> end],
                f, dv, Command2(69, start, end), r)

\* isp.CopyRAMToFlash(flash_address, chip.RAMStartWrite, sector_bytes)
SessionCopy ==
  \E sector \in {0, last_sector} :
  \E f \in Outcomes({}) :
  \E dv \in { Device(chip, device,
                     Command("C", chip.FlashRange[1] + sector * sector_bytes,
                             chip.RAMStartWrite, sector_bytes), f, device.ram) } :
  \E r \in { CopyRAMToFlash(chip.FlashRange[1] + sector * sector_bytes,
                            chip.RAMStartWrite, sector_bytes,
               rx \o Echoing(echo_on,
                             Command3(67, chip.FlashRange[1] + sector * sector_bytes,
                                      chip.RAMStartWrite, sector_bytes),
                             dv.reply), echo_on) } :
    SessionCall([op |-> "CopyRAMToFlash", sector |-> sector], f, dv,
                Command3(67, chip.FlashRange[1] + sector * sector_bytes,
                         chip.RAMStartWrite, sector_bytes), r)

InitSession ==
  /\ pc = "session"
  /\ call = [op |-> "none"]
  /\ ret = [exc |-> "none", val |-> CMD_SUCCESS, name |-> "", calls |-> 0,
            after_refusal |-> FALSE]
  /\ chip = Part(NumSectors)
  /\ rx = << >>
  /\ tx = << >>
  /\ data_buffer_in = << >>
  /\ echo_on \in BOOLEAN
  /\ iodevice = UartDevice(kStartingBaudRate)
  /\ devOut = Reply(<< >>, << >>, << >>)
  /\ imagein = 1
  /\ safe_write = TRUE
  /\ device = [flash |-> [s \in 0..(chip.SectorCount - 1) |-> Erased],
               ram |-> RamAtReset, prepared |-> {}, unlocked |-> FALSE]
  /\ NoJob

NextSession ==
  \/ SessionUnlock
  \/ SessionPrep
  \/ SessionErase
  \/ SessionCopy

SpecSession == InitSession /\ [][NextSession]_vars

\* The device answered the last command with a return code other than
\* CMD_SUCCESS.
DeviceRefused ==
  /\ call.op # "none"
  /\ devOut.code # << >>
  /\ devOut.code # CodeLine(0)

\* C25: a command the device answers with a non-success return code raises
\* the UserWarning that names the call, and leaves no byte of its response
\* unread; and every command of the session, after a refused one too, gets
\* the return code the device sent in answer to it.
C25_RefusedCommandLeavesSessionUsable ==
  pc = "session" =>
    /\ DeviceRefused =>
         /\ ret.exc = "UserWarning"
         /\ ret.name = CASE call.op = "Unlock" -> "Unlock"
                         [] call.op = "PrepSectorsForWrite" -> "Prep Sectors"
                         [] call.op = "EraseSector" -> "Erase Sectors"
                         [] call.op = "CopyRAMToFlash" -> "Copy RAM To Flash"
         /\ rx = << >>
    /\ (call.op # "none" /\ devOut.code # << >>) =>
         /\ Line(Str(ret.val)) = devOut.code

\* A command the device accepts right after one it refused.
C25_Witness ==
  /\ pc = "session"
  /\ ret.after_refusal
  /\ ret.exc = "none"
  /\ call.op = "PrepSectorsForWrite"
  /\ echo_on
  /\ devOut.code = CodeLine(0)
  /\ rx = << >>

----------------------------------------------------------------------------
(* parts_definitions: the lookup of a part id in the chip file.            *)

\* The rows of a chip file
MaxRows == 3

\* What int(text, 0) reads in place of a character: a decimal digit of any
\* script as its ASCII digit, white space outside ASCII as a blank.
ToAscii(ch) ==
  IF ch <= 127 THEN ch
  ELSE IF IsSpace(ch) THEN 32
  ELSE IF IsDigit(ch) THEN 48 + DigitValue(ch)
  ELSE ch

\* The value of a digit or letter, 36 for another character.
HexDigit(ch) ==
  IF ch \in 48..57 THEN ch - 48
  ELSE IF ch \in 97..122 THEN ch - 87
  ELSE IF ch \in 65..90 THEN ch - 55
  ELSE 36

\* Digits of the base with single underscores between them, and after the
\* prefix of the base when lead is set.
RECURSIVE BaseDigitsOk(_, _, _, _)
BaseDigitsOk(digits, i, base, lead) ==
  IF i > Len(digits) THEN TRUE
  ELSE IF HexDigit(digits[i]) < base THEN BaseDigitsOk(digits, i + 1, base, lead)
  ELSE /\ digits[i] = 95
       /\ IF i = 1 THEN lead ELSE HexDigit(digits[i - 1]) < base
       /\ i < Len(digits) /\ HexDigit(digits[i + 1]) < base
       /\ BaseDigitsOk(digits, i + 1, base, lead)

RECURSIVE HexValue(_, _, _)
HexValue(digits, base, acc) ==
  IF digits = << >> THEN acc
  ELSE IF Head(digits) = 95 THEN HexValue(Tail(digits), base, acc)
  ELSE HexValue(Tail(digits), base, MulAdd(acc, base, HexDigit(Head(digits))))

\* int(text, 0): a literal of the language, its base read from the prefix
\* 0x, 0o or 0b; a decimal literal other than zero has no leading zero.
\* ok = FALSE stands for ValueError.
IntBase0(text) ==
  LET Parsed(minus, good, v) ==
        [ok |-> good, val |-> [v EXCEPT !.neg = minus /\ ~IsZero(v)]]
      Digits(minus, digits, base, lead) ==
        LET good == /\ digits # << >>
                    /\ BaseDigitsOk(digits, 1, base, lead)
                    /\ (base = 10 /\ Head(digits) = 48) =>
                         \A i \in 1..Len(digits) : digits[i] \in {48, 95}
        IN  Parsed(minus, good, IF good THEN HexValue(digits, base, PyInt(0)) ELSE PyInt(0))
      Prefixed(minus, body) ==
        IF Len(body) >= 2 /\ body[1] = 48 /\ body[2] \in {120, 88}
          THEN Digits(minus, SubSeq(body, 3, Len(body)), 16, TRUE)
        ELSE IF Len(body) >= 2 /\ body[1] = 48 /\ body[2] \in {111, 79}
          THEN Digits(minus, SubSeq(body, 3, Len(body)), 8, TRUE)
        ELSE IF Len(body) >= 2 /\ body[1] = 48 /\ body[2] \in {98, 66}
          THEN Digits(minus, SubSeq(body, 3, Len(body)), 2, TRUE)
        ELSE Digits(minus, body, 10, FALSE)
      Signed(t) ==
        IF t # << >> /\ Head(t) \in {43, 45}
          THEN Prefixed(Head(t) = 45, Tail(t)) ELSE Prefixed(FALSE, t)
  IN  Signed(IntRStrip(IntLStrip([i \in 1..Len(text) |-> ToAscii(text[i])])))

\* A row of the file: a comment, or the fields of a part (of which the id
\* and the name are kept).
CommentRow == [comment |-> TRUE, id |-> << >>, name |-> ""]

PartRow(id, name) == [comment |-> FALSE, id |-> id, name |-> name]

\* "0x00008041", "0x0000804", "0x00008042", "32833" and, no literal of the
\* language, "08041"
IdTexts ==
  { << 48, 120, 48, 48, 48, 48, 56, 48, 52, 49 >>,
    << 48, 120, 48, 48, 48, 48, 56, 48, 52 >>,
    << 48, 120, 48, 48, 48, 48, 56, 48, 52, 50 >>,
    << 51, 50, 56, 51, 51 >>,
    << 48, 56, 48, 52, 49 >> }

Rows == { CommentRow } \cup { PartRow(id, name) : id \in IdTexts, name \in {"LPC845", "LPC844"} }

RECURSIVE RowsOfLength(_)
RowsOfLength(n) ==
  IF n = 0 THEN { << >> }
  ELSE { Append(f, row) : f \in RowsOfLength(n - 1), row \in Rows }

ChipFiles == UNION { RowsOfLength(n) : n \in 0..MaxRows }

\* 0x8041, 0x804, 0x8042
PartIds == { PyInt(32833), PyInt(2052), PyInt(32834) }

\* parse_lpcparts_string: the parts of the rows that are no comment;
\* ValueError out of int(row[0], 0) at the first row whose id is no literal.
RECURSIVE parse_lpcparts_string(_)
parse_lpcparts_string(rows) ==
  LET Joined(id, rest) ==
        IF ~id.ok \/ rest.exc # "none" THEN [exc |-> "ValueError", val |-> << >>]
        ELSE [exc |-> "none",
              val |-> << [part_id |-> id.val, name |-> Head(rows).name] >> \o rest.val]
  IN  IF rows = << >> THEN [exc |-> "none", val |-> << >>]
      ELSE IF Head(rows).comment THEN parse_lpcparts_string(Tail(rows))
      ELSE Joined(IntBase0(Head(rows).id), parse_lpcparts_string(Tail(rows)))

\* part.part_id == partid
PartIdPrefix(part, partid) ==
  part.part_id = partid \/ part.part_id = MulAdd(partid, 16, 1)

PartIdEquals(part, partid) == part.part_id = partid

NoPart == [part_id |-> PyInt(0), name |-> ""]

\* The loop of get_part_descriptor_line over the parts read from the file.
RECURSIVE FirstPart(_, _)
FirstPart(parts, partid) ==
  IF parts = << >> THEN [exc |-> "ValueError", val |-> NoPart]
  ELSE IF PartIdEquals(Head(parts), partid) THEN [exc |-> "none", val |-> Head(parts)]
  ELSE FirstPart(Tail(parts), partid)

get_part_descriptor_line(fname, partid) ==
  LET Looked(parts) ==
        IF parts.exc # "none" THEN [exc |-> parts.exc, val |-> NoPart]
        ELSE FirstPart(parts.val, partid)
  IN  Looked(parse_lpcparts_string(fname))

\* What the lookup leaves unchanged.
partsFrame == << chip, iodevice, sessionVars, devOut, jobVars >>

LookupPart ==
  /\ pc = "lookup"
  /\ pc' = "done"
  /\ ret' = get_part_descriptor_line(call.fname, call.partid)
  /\ UNCHANGED << call, partsFrame >>

InitParts ==
  /\ pc = "lookup"
  /\ call \in [op : {"get_part_descriptor_line"}, fname : ChipFiles, partid : PartIds]
  /\ ret = [exc |-> "none", val |-> NoPart]
  /\ QuietSession

NextParts == LookupPart

SpecParts == InitParts /\ [][NextParts]_vars

\* Every record of the file has a literal of the language for its id: the
\* file is a catalog.
IsCatalog(rows) ==
  \A i \in 1..Len(rows) : ~rows[i].comment => IntBase0(rows[i].id).ok

\* The rows of the file whose id is the number asked for.
RowsWithId(rows, partid) ==
  { i \in 1..Len(rows) : ~rows[i].comment /\ IntBase0(rows[i].id).val = partid }

\* C26: on a catalog, get_part_descriptor_line returns the first record of
\* the file whose part id is the id asked for and raises ValueError when the
\* file has none; a record whose id merely starts with the digits asked for
\* (0x8041 for 0x804) is no match.  A file with a record whose id is no
\* literal is no catalog, and the lookup raises ValueError.
C26_PartLookup ==
  (call.op = "get_part_descriptor_line" /\ pc = "done") =>
    LET found == RowsWithId(call.fname, call.partid)
    IN  IF ~IsCatalog(call.fname) \/ found = {}
          THEN ret.exc = "ValueError"
          ELSE /\ ret.exc = "none"
               /\ ret.val.part_id = call.partid
               /\ \E i \in found :
                    /\ \A j \in found : i <= j
                    /\ ret.val.name = call.fname[i].name

\* 0x804 looked up in a catalog that lists 0x8041 and not 0x804.
C26_Witness ==
  /\ call.op = "get_part_descriptor_line"
  /\ pc = "done"
  /\ call.partid = PyInt(2052)
  /\ IsCatalog(call.fname)
  /\ \E i \in 1..Len(call.fname) :
       call.fname[i].id = << 48, 120, 48, 48, 48, 48, 56, 48, 52, 49 >>
  /\ RowsWithId(call.fname, PyInt(2052)) = {}
  /\ ret.exc = "ValueError"

----------------------------------------------------------------------------
(* ChipDescription.FlashRangeLegal and RamRangeLegal on their own.         *)

\* Addresses around both ends of a range, on and off the alignment.
AddressesAround(range) ==
  { range[1] - 64, range[1], range[1] + 2, range[1] + 4, range[1] + 64,
    range[2] - 63, range[2] - 3, range[2], range[2] + 1 }

\* Lengths from nothing to more than the range holds.
LengthsAround(range) ==
  { 0, 1, 4, 64, range[2] - range[1] - 63, range[2] - range[1],
    range[2] - range[1] + 1, range[2] - range[1] + 2 }

\* What the check leaves unchanged.
rangeFrame == << chip, iodevice, sessionVars, devOut, jobVars >>

\* chip.FlashRangeLegal(address, length)
CheckFlashRange ==
  /\ pc = "check"
  /\ call.op = "FlashRangeLegal"
  /\ pc' = "done"
  /\ ret' = [val |-> FlashRangeLegal(chip, call.address, call.length)]
  /\ UNCHANGED << call, rangeFrame >>

\* chip.RamRangeLegal(address, length)
CheckRamRange ==
  /\ pc = "check"
  /\ call.op = "RamRangeLegal"
  /\ pc' = "done"
  /\ ret' = [val |-> RamRangeLegal(chip, call.address, call.length)]
  /\ UNCHANGED << call, rangeFrame >>

InitRange ==
  /\ pc = "check"
  /\ QuietSession
  /\ call \in [op : {"FlashRangeLegal"}, address : AddressesAround(chip.FlashRange),
               length : LengthsAround(chip.FlashRange)]
            \cup [op : {"RamRangeLegal"}, address : AddressesAround(chip.RAMRange),
                  length : LengthsAround(chip.RAMRange)]
  /\ ret = [val |-> FALSE]

NextRange ==
  \/ CheckFlashRange
  \/ CheckRamRange

SpecRange == InitRange /\ [][NextRange]_vars

\* The span of an inclusive range: the number of addresses it holds.
Span(range) == range[2] - range[1] + 1

\* C27: FlashRangeLegal(addr, len) is true exactly when addr and addr+len-1
\* lie in the inclusive flash range, len is at most the span of the range
\* (the number of bytes it holds) and addr is a multiple of 64;
\* RamRangeLegal likewise with the RAM range and multiples of 4.
C27_RangeLegality ==
  pc = "done" =>
    /\ call.op = "FlashRangeLegal" =>
         (ret.val <=>
            /\ { call.address, call.address + call.length - 1 }
                 \subseteq chip.FlashRange[1]..chip.FlashRange[2]
            /\ call.length <= Span(chip.FlashRange)
            /\ \E k \in 0..(chip.FlashRange[2] \div 64) : call.address = 64 * k)
    /\ call.op = "RamRangeLegal" =>
         (ret.val <=>
            /\ { call.address, call.address + call.length - 1 }
                 \subseteq chip.RAMRange[1]..chip.RAMRange[2]
            /\ call.length <= Span(chip.RAMRange)
            /\ (call.address - chip.RAMRange[1]) \in { 4 * k : k \in 0..1024 })

----------------------------------------------------------------------------
(* WriteSector up to its call of WriteFlashSector.                         *)

\* The lengths of the data handed to WriteSector: nothing, less than a
\* sector, a sector, more than a sector.
DataLengths ==
  { 0, 1, 2, 3, 4, 63, 64, 100, 256, 512, 768, 1000, 1020,
    sector_bytes - 1, sector_bytes, sector_bytes + 1 }

\* The data: one byte repeated, or bytes counting up from a start.
SectorData ==
  { Rep(b, n) : b \in {0, 255}, n \in DataLengths }
    \cup { [i \in 1..n |-> (first + i) % 256] : first \in {0, 127}, n \in DataLengths }

\* What WriteSector leaves unchanged before WriteFlashSector runs.
padFrame == << chip, iodevice, sessionVars, devOut, jobVars >>

\* WriteSector: assert len(data) > 0; chip.sector_bytes, which raises
\* UserWarning when a sector exceeds RAMBufferSize; the padding;
\* WriteFlashSector's assert len(data) == chip.sector_bytes.  ret.data is the
\* argument of WriteFlashSector.
WriteSectorPad ==
  /\ pc = "WriteSector"
  /\ pc' = "WriteFlashSector"
  /\ ret' = IF Len(call.data) = 0
              THEN [exc |-> "AssertionError", at |-> "WriteSector", data |-> << >>]
            ELSE IF SectorBytesRaises(chip)
              THEN [exc |-> "UserWarning", at |-> "WriteSector", data |-> << >>]
            ELSE IF Len(PadSector(call.data)) # sector_bytes
              THEN [exc |-> "AssertionError", at |-> "WriteFlashSector",
                    data |-> PadSector(call.data)]
            ELSE [exc |-> "none", at |-> "WriteFlashSector",
                  data |-> PadSector(call.data)]
  /\ UNCHANGED << call, padFrame >>

InitPad ==
  /\ pc = "WriteSector"
  /\ QuietSession
  /\ call \in [op : {"WriteSector"}, sector : {0}, data : SectorData]
  /\ ret = [exc |-> "none", at |-> "WriteSector", data |-> << >>]

NextPad == WriteSectorPad

SpecPad == InitPad /\ [][NextPad]_vars

\* C28: for data of 1 to sector_bytes bytes WriteSector hands WriteFlashSector
\* exactly sector_bytes bytes: the data, followed by bytes 0xFF only; data of
\* sector_bytes bytes is handed over as it is.
C28_WriteSectorPads ==
  (call.op = "WriteSector" /\ pc = "WriteFlashSector"
     /\ 0 < Len(call.data) /\ Len(call.data) <= sector_bytes) =>
    /\ ret.exc = "none"
    /\ Len(ret.data) = sector_bytes
    /\ \A i \in 1..sector_bytes :
         ret.data[i] = IF i <= Len(call.data) THEN call.data[i] ELSE 255
    /\ Len(call.data) = sector_bytes => ret.data = call.data

\* Three bytes that are not 0xFF, padded.
C28_Witness ==
  /\ call.op = "WriteSector"
  /\ pc = "WriteFlashSector"
  /\ call.data = << 1, 2, 3 >>
  /\ Len(ret.data) = sector_bytes
  /\ ret.data[4] = 255
  /\ ret.data[sector_bytes] = 255

----------------------------------------------------------------------------
(* SetupChip: the baud rate of the port and the B command.                 *)

\* The baud rate SetupChip opens the port at.
StartingBaudRate == IF call.no_sync THEN call.baudrate ELSE kStartingBaudRate

\* The device answered "B <baudrate> 1" with 0.
BaudAcknowledged == Line(BaudCommand(call.baudrate, 1)) \in device.acked

\* C29: in SetupChip the port is at its starting baud rate (9600, or the
\* requested rate with no_sync) or at the requested rate, and at another
\* rate than the starting one only once the device has answered
\* "B <baud> 1" with 0; when isp.SetBaudRate(baudrate) of SetupChip raises
\* with no B acknowledged, SetupChip fails and the port is still at its
\* starting baud rate.
C29_BaudAfterAcknowledge ==
  (call.op = "SetupChip" /\ iodevice # NoPort) =>
    /\ iodevice.baudrate \in { StartingBaudRate, call.baudrate }
    /\ iodevice.baudrate # StartingBaudRate => BaudAcknowledged
    /\ (ret.at = "SetBaudRate" /\ ~BaudAcknowledged) =>
         /\ ret.exc # "none"
         /\ pc \in { "except", "done" }
         /\ pc = "done" => result # "returned"
         /\ iodevice.baudrate = StartingBaudRate

\* SetupChip(115200) failed on a device that refuses B: the port is closed,
\* at 9600 baud.
C29_Witness ==
  /\ call.op = "SetupChip"
  /\ call.baudrate = 115200
  /\ ~call.no_sync
  /\ pc = "done"
  /\ ret.at = "SetBaudRate"
  /\ result = "UserWarning"
  /\ ~BaudAcknowledged
  /\ TimesSent(Frame(Line(BaudCommand(115200, 1)))) = BaudRateTries
  /\ iodevice = [open |-> FALSE, baudrate |-> 9600]

----------------------------------------------------------------------------
(* WriteFlashSector when the flash sector already holds the data.          *)

\* The flash sector of the running call holds what the staging buffer holds.
FlashEqualsRam == SameBytes(device.flash[wfs.sector], device.ram)

\* No frame of `frames` is a P, E, I or C command.
NothingDestructive(frames) ==
  \A i \in 1..Len(frames) :
    frames[i].k = "bytes" => frames[i].b[1] \notin { 80, 69, 73, 67 }

\* The steps of WriteFlashSector up to the first compare.
Staging == pc \in { "ReadCRCInitial", "WriteToRam", "ReadCRCRam", "CompareBefore" }

\* C30: with safe_write set, when the device answers the M compare that
\* follows the staging with "equal", WriteFlashSector returns there: the
\* call has sent no P, E, I or C command, and no step of it, the staging
\* included, has changed the flash.
C30_ShortCircuit ==
  [][ /\ (Staging /\ wfs.outcome = "running") => device'.flash = device.flash
      /\ (pc = "CompareBefore" /\ safe_write /\ FlashEqualsRam /\ faults' = faults) =>
           /\ wfs'.outcome = "skipped"
           /\ pc' = AfterSector
           /\ NothingDestructive(SubSeq(tx', wfs.start + 1, Len(tx')))
           /\ wfs'.end = Len(tx') ]_vars

\* A sector of the image that the flash held already was skipped.
C30_Witness ==
  /\ safe_write
  /\ wfs.outcome = "skipped"
  /\ wfs.ram_equal
  /\ wfs.sector > 0
  /\ FlashEqualsRam
  /\ Len(SentByCall) = 5

----------------------------------------------------------------------------
(* The P, E and C commands of the write pipeline (under Spec).             *)

\* The sectors of the part.
SectorsOfChip == 0..(chip.SectorCount - 1)

\* "P s s", "E s s" and the C command of sector s, as frames.
PrepFrame(s) == CommandFrame(Command2(80, s, s))

EraseFrame(s) == CommandFrame(Command2(69, s, s))

CopyFrame(s) ==
  CommandFrame(Command3(67, chip.FlashRange[1] + s * sector_bytes,
                        chip.RAMStartWrite, sector_bytes))

\* Frame i of tx is a command that begins with `letter`.
IsCommandAt(i, letter) == tx[i].k = "bytes" /\ tx[i].b[1] = letter

\* C31: every C command the pipeline has sent follows directly a P command
\* for the sector it copies to, every E command follows directly a P for the
\* sector it erases, and that P had returned CMD_SUCCESS: the device holds
\* the sector prepared when the E or the C is about to be sent.
C31_PrepDirectlyBefore ==
  /\ \A i \in 1..Len(tx) :
       /\ IsCommandAt(i, 67) =>
            \E s \in SectorsOfChip :
              tx[i] = CopyFrame(s) /\ i > 1 /\ tx[i - 1] = PrepFrame(s)
       /\ IsCommandAt(i, 69) =>
            \E s \in SectorsOfChip :
              tx[i] = EraseFrame(s) /\ i > 1 /\ tx[i - 1] = PrepFrame(s)
  /\ pc \in { "Erase", "Copy" } =>
       /\ wfs.sector \in device.prepared
       /\ tx[Len(tx)] = PrepFrame(wfs.sector)

\* A sector was erased and copied, the blank check in between.
C31_Witness ==
  /\ safe_write
  /\ pc = "ReadCRCFlash"
  /\ tx[Len(tx)] = CopyFrame(wfs.sector)
  /\ tx[Len(tx) - 1] = PrepFrame(wfs.sector)
  /\ tx[Len(tx) - 3] = EraseFrame(wfs.sector)
  /\ tx[Len(tx) - 4] = PrepFrame(wfs.sector)

\* "I s s" as a frame.
BlankCheckFrame(s) == CommandFrame(Command2(73, s, s))

\* The P, E, I and C commands among `frames` are those of sector s.
OnlySector(frames, s) ==
  \A i \in 1..Len(frames) :
    frames[i].k = "bytes" =>
      /\ frames[i].b[1] = 80 => frames[i] = PrepFrame(s)
      /\ frames[i].b[1] = 69 => frames[i] = EraseFrame(s)
      /\ frames[i].b[1] = 73 => frames[i] = BlankCheckFrame(s)
      /\ frames[i].b[1] = 67 => frames[i] = CopyFrame(s)

\* C32: every step of a WriteFlashSector(sector, data) call, whether the call
\* goes on, returns or raises, leaves the content of every other flash
\* sector as it was, and the P, E, I and C commands the call has written
\* are "P sector sector", "E sector sector", "I sector sector" and the copy
\* of sector_bytes bytes to flash_start + sector * sector_bytes.
C32_OwnSectorOnly ==
  [][ wfs.outcome = "running" =>
        /\ \A s \in SectorsOfChip \ { wfs.sector } : device'.flash[s] = device.flash[s]
        /\ OnlySector(SubSeq(tx', wfs.start + 1, Len(tx')), wfs.sector) ]_vars

\* A sector other than sector 0 was written while another sector held data.
C32_Witness ==
  /\ wfs.outcome = "written"
  /\ wfs.sector > 0
  /\ \E i \in 1..Len(SentByCall) : SentByCall[i] = CopyFrame(wfs.sector)
  /\ \E s \in SectorsOfChip \ { wfs.sector } : ~SameBytes(device.flash[s], Erased)

----------------------------------------------------------------------------
(* The operations that erase or program: WriteImage with the               *)
(* WriteBinaryToFlash it calls, and MassErase.                             *)

InitUnlock ==
  \/ Init
  \/ InitFlash /\ call.op = "MassErase"

NextUnlock ==
  \/ WI_Unlock
  \/ WI_WriteSector
  \/ WFS_ReadCRCInitial
  \/ WFS_WriteToRam
  \/ WFS_ReadCRCRam
  \/ WFS_CompareBefore
  \/ WFS_PrepErase
  \/ WFS_Erase
  \/ WFS_CheckBlank
  \/ WFS_PrepCopy
  \/ WFS_Copy
  \/ WFS_ReadCRCFlash
  \/ WFS_CompareAfter
  \/ WI_MakeBootable
  \/ WBF_Unlock
  \/ WBF_Loop
  \/ MassEraseUnlock
  \/ MassErasePrep
  \/ MassEraseErase

SpecUnlock == InitUnlock /\ [][NextUnlock]_vars

\* "U 23130" as a frame.
UnlockFrame == CommandFrame(UnlockCommand)

\* Frame i of tx is a P, E or C command.
DestructiveAt(i) == IsCommandAt(i, 80) \/ IsCommandAt(i, 69) \/ IsCommandAt(i, 67)

\* A P, E or C command is the next to be sent.
AboutToDestroy ==
  pc \in { "PrepErase", "Erase", "PrepCopy", "Copy", "PrepSectorsForWrite", "EraseSector" }

\* The operation ended with an exception.
Aborted ==
  IF call.op = "MassErase" THEN pc = "raised"
  ELSE pc = "done" /\ result \notin { "running", "returned" }

\* C33: in WriteImage, in the WriteBinaryToFlash it calls and in MassErase, a
\* P, E or C command is sent only after "U 23130" was sent in the same
\* operation and returned CMD_SUCCESS (the device is unlocked); when the U
\* does not return CMD_SUCCESS the operation raises, having sent no P, E or
\* C after that U, and the flash is as it was when the U was sent.
C33_UnlockFirst ==
  /\ \A i \in 1..Len(tx) : DestructiveAt(i) => (i > 1 /\ tx[1] = UnlockFrame)
  /\ AboutToDestroy =>
       /\ device.unlocked
       /\ TimesSent(UnlockFrame) = IF stage = "image" THEN 2 ELSE 1
       /\ stage = "image" =>
            \E j \in 2..wfs.start : tx[j] = UnlockFrame
  /\ (Aborted /\ call.op = "MassErase" /\ ret.returned = 0) =>
       /\ \A i \in 1..Len(tx) : ~DestructiveAt(i)
       /\ device.flash = flash0
  /\ (Aborted /\ call.op = "none" /\ wsLog = << >>) =>
       /\ \A i \in 1..Len(tx) : ~DestructiveAt(i)
       /\ device.flash = flash0
  /\ (Aborted /\ call.op = "none" /\ stage = "image" /\ Len(wsLog) = 1) =>
       /\ \E j \in 1..Len(tx) :
            /\ tx[j] = UnlockFrame
            /\ j > 1
            /\ \A i \in j..Len(tx) : ~DestructiveAt(i)
       /\ \A s \in SectorsOfChip \ { 0 } : device.flash[s] = flash0[s]

\* The U of WriteBinaryToFlash was refused after sector 0 had been made
\* unbootable.
C33_Witness ==
  /\ call.op = "none"
  /\ stage = "image"
  /\ Len(wsLog) = 1
  /\ pc = "done"
  /\ result = "UserWarning"
  /\ TimesSent(UnlockFrame) = 2
  /\ \E i \in 1..Len(tx) : IsCommandAt(i, 67)

----------------------------------------------------------------------------
(* What the flash holds when the write operations return.                  *)

\* A device that executes commands faithfully: every command so far was
\* answered and carried out as sent.
FaithfulDevice == faults = 0

C35_ReturnMeansWritten ==
  wfs.outcome \in { "written", "skipped" } =>
    BytesOf[device.flash[wfs.sector]] = BytesOf[wfs.data]

----------------------------------------------------------------------------
(* WriteImage on an image that does not fit the part (under Spec).         *)

\* C36: WriteImage with an image that needs more sectors than the part has
\* checks the capacity before any destructive step: every flash sector,
\* sector 0 included, stays as it was, and the caller is not given a normal
\* return.
C36_CapacityBeforeDestruction ==
  CapacityExceeded =>
    /\ FlashIsPrior
    /\ result # "returned"

----------------------------------------------------------------------------
(* _write_command against a device whose responses may come late           *)
(* (SpecDelay).  What the device has sent and the host has not received is *)
(* on the wire, in the order sent.  The bytes on the wire get to the       *)
(* serial input at any moment: before the first read of _get_return_code   *)
(* returns, between its two reads, or later, during or after the calls     *)
(* that follow; a read that gives up returns what is there.  Line noise    *)
(* makes a response arrive as a byte that is no UTF-8, which ReadLine      *)
(* turns into TimeoutError.                                                *)

\* What the boot ROM may answer to the bare newline _get_return_code writes
\* in its TimeoutError handler: nothing, or INVALID_COMMAND.
NudgeReplies == { << >>, CodeLine(1) }

\* The ways of cutting what is on the wire in the bytes that are there for
\* the first read, those that come between the reads and those that stay on
\* the wire when the call returns.
Arrivals(sent) ==
  { [first  |-> SubSeq(sent, 1, cut[1]),
     second |-> SubSeq(sent, cut[1] + 1, cut[2]),
     after  |-> SubSeq(sent, cut[2] + 1, Len(sent))] :
      cut \in { c \in (0..Len(sent)) \X (0..Len(sent)) : c[1] <= c[2] } }

\* The commands issued on one session whose responses may come late
MaxDelayed == 2

\* What a delayed command leaves unchanged.
delayFrame ==
  << pc, chip, iodevice, data_buffer_in, echo_on, imagein, safe_write, stage,
     todo, wfs, wsLog, result, wbf_return, flash0 >>

\* One command on the session: _write_command writes the command and reads
\* its return code from what is in the serial input at the moment of each
\* read; nothing empties the input before the command is written.  The
\* device's answer joins what is on the wire; what has not arrived when the
\* call returns stays there, followed by the device's reply to the newline
\* of the TimeoutError handler, and arrives during a later call or never.
\* devOut.code is the return code the device emitted for this command.
DelayedCall(op, f, dv, command_string, noise, nudge) ==
  /\ pc = "delay"
  /\ ret.calls < MaxDelayed
  /\ device' = dv.dev
  /\ Fault(f)
  /\ devOut' = Reply(IF echo_on /\ dv.reply # << >> THEN Line(command_string) ELSE << >>,
                     dv.reply, << >>)
  /\ call' = op
  /\ \E answer \in { IF noise THEN Line(<< 255 >>)
                     ELSE Echoing(echo_on, command_string, dv.reply) } :
       \E a \in Arrivals(wire \o answer) :
         \E rc \in { GetReturnCodeReads(command_string, rx, a.first, a.second) } :
           /\ rx' = rc.rx
           /\ wire' = a.after \o (IF rc.nudge THEN nudge ELSE << >>)
           /\ tx' = tx \o CommandFrames(command_string, rc)
           /\ ret' = [exc |-> IF rc.exc # "none" THEN rc.exc
                              ELSE RaiseReturnCodeError(rc.code),
                      val |-> rc.code, nudged |-> rc.nudge,
                      calls |-> ret.calls + 1, unread |-> rx # << >>]
  /\ UNCHANGED delayFrame

\* isp.Unlock()
DelayedUnlock ==
  \E noise \in BOOLEAN : \E nudge \in NudgeReplies :
  \E f \in Outcomes({}) :
  \E dv \in { Device(chip, device, Command("U", 23130, 0, 0), f, device.ram) } :
    DelayedCall([op |-> "Unlock"], f, dv, UnlockCommand, noise, nudge)

\* isp.PrepSectorsForWrite(0, 0)
DelayedPrep ==
  \E noise \in BOOLEAN : \E nudge \in NudgeReplies :
  \E f \in Outcomes({}) :
  \E dv \in { Device(chip, device, Command("P", 0, 0, 0), f, device.ram) } :
    DelayedCall([op |-> "PrepSectorsForWrite"], f, dv, Command2(80, 0, 0), noise, nudge)

InitDelay ==
  /\ pc = "delay"
  /\ call = [op |-> "none"]
  /\ ret = [exc |-> "none", val |-> CMD_SUCCESS, nudged |-> FALSE,
            calls |-> 0, unread |-> FALSE]
  /\ chip = Part(NumSectors)
  /\ rx = << >>
  /\ tx = << >>
  /\ data_buffer_in = << >>
  /\ echo_on \in BOOLEAN
  /\ iodevice = UartDevice(kStartingBaudRate)
  /\ devOut = Reply(<< >>, << >>, << >>)
  /\ imagein = 1
  /\ safe_write = TRUE
  /\ device = [flash |-> [s \in 0..(chip.SectorCount - 1) |-> Erased],
               ram |-> RamAtReset, prepared |-> {}, unlocked |-> FALSE]
  /\ NoJob

NextDelay ==
  \/ DelayedUnlock
  \/ DelayedPrep

SpecDelay == InitDelay /\ [][NextDelay]_vars

\* C37: whatever the timing of the device's responses, a return code that
\* _write_command reports for a command (other than the NoStatusResponse it
\* makes up itself) is the code the device emitted for that same command: a
\* late response, or the reply to the newline nudge, is never taken for the
\* response to a later command.
C37_ResponsePairing ==
  (pc = "delay" /\ call.op # "none" /\ ret.val # NoStatusResponse
     /\ ret.exc # "ValueError") =>
    /\ devOut.code = Line(Str(ret.val))

----------------------------------------------------------------------------
(* The assertions of WriteFlashSector before the copy (under Spec).        *)

\* C38: when WriteFlashSector has erased the sector and prepared it again,
\* the two assertions that stand before the copy hold, on every part (the
\* single-sector part included) and for every sector of it: the staging
\* buffer is a legal RAM range and the sector is a legal flash range.
C38_RangesLegalBeforeCopy ==
  pc = "Copy" =>
    /\ RamRangeLegal(chip, ram_address, sector_bytes)
    /\ FlashRangeLegal(chip, flash_address, sector_bytes)

----------------------------------------------------------------------------
(* The descriptor SetupChip hands to ChipDescription (under SpecSync).     *)

\* SetupChip has read a part id that the chip file lists.
ListedPartRead == call.op = "SetupChip" /\ ret.val \in ChipFile

\* C40: for a part the chip file lists, the descriptor get_part_descriptor
\* returns holds the keys ChipDescription reads, with RAMRange = (RAMStart,
\* RAMStart + RAMSize - 1), FlashRange = (FlashStart, FlashStart + FlashSize
\* - 1) and RAMStartWrite = RAMStart + RAMBufferOffset, so that SetupChip,
\* once it has read the part id, makes the ChipDescription and does not end
\* in the constructor.
C40_DescriptorMakesChip ==
  ListedPartRead =>
    /\ \A d \in { get_part_descriptor(ret.val).val } :
         /\ ChipDescriptionKeys \subseteq DOMAIN d
         /\ d.RAMRange = << d.RAMStart, d.RAMStart + d.RAMSize - 1 >>
         /\ d.FlashRange = << d.FlashStart, d.FlashStart + d.FlashSize - 1 >>
         /\ d.RAMStartWrite = d.RAMStart + d.RAMBufferOffset
    /\ result \notin { "KeyError", "AssertionError" }

----------------------------------------------------------------------------
(* What ReadImage returns (under SpecFlash).                               *)

\* The number of sectors from sector 0 through the last sector that is not
\* blank: 0 when the whole flash is blank.
ThroughLastNonBlank(flash) ==
  Cardinality({ s \in DOMAIN flash : \E t \in DOMAIN flash : t >= s /\ flash[t] # Erased })

\* C39: ReadImage returns the content of every sector from sector 0 through
\* the last sector that is not blank; when no sector is blank these are all
\* SectorCount sectors.
C39_ReadImageWholeImage ==
  (call.op = "ReadImage" /\ pc = "returned") =>
    /\ ret.val = Flatten([i \in 1..ThroughLastNonBlank(device.flash) |->
                            BytesOf[device.flash[i - 1]]])
    /\ (\A s \in DOMAIN device.flash : device.flash[s] # Erased) =>
         Len(ret.val) = chip.SectorCount * sector_bytes

============================================================================
